---------------------------- MODULE Spec2Model ----------------------------
(***************************************************************************)
(* A model of AppProxy (src/src/appproxy.cpp), the control-plane object of *)
(* V2Ray-Desktop: the validators, the share-link codec, the runtime-config *)
(* builders, the subscription importer and the handlers that drive the     *)
(* profile store and the proxy engine.                                     *)
(*                                                                         *)
(* Text (QString) is a sequence of one-character strings, so that the      *)
(* code's parsing (toInt, indexOf, mid, split, startsWith) is computed and *)
(* not assumed.  A JSON value (QJsonValue) is a tagged record, a JSON      *)
(* object (QJsonObject) a function from its keys to JSON values.           *)
(***************************************************************************)
EXTENDS Integers, Sequences, FiniteSets, TLC

VARIABLES
  servers,        \* the profile store held by Configurator: name -> profile
  appConfig,      \* the AppConfig record held by Configurator
  serverLatency,  \* AppProxy::serverLatency: name -> last latency
  call,           \* the handler that ran last, with its arguments
  effects,        \* what that handler did, in order: signals and collaborator calls
  imported,       \* the last subscription import whose result is still in the store
  remote,         \* the subscription the worker fetches: its URL and the bundle it serves
  ret,            \* the value returned by the pure function under study
  pacServerRunning,  \* PacServer::isRunning: whether the local PAC server runs
  coreStatusShown    \* the engine status the UI was told last (v2RayCoreStatusReady)

vars == <<servers, appConfig, serverLatency, call, effects, imported, remote, ret,
          pacServerRunning, coreStatusShown>>

-----------------------------------------------------------------------------
(* Text: QString                                                           *)

\* the largest value of a C++ int (QString::toInt converts to int)
IntMax == 2147483647

IntMin == -IntMax - 1

Digits == <<"0", "1", "2", "3", "4", "5", "6", "7", "8", "9">>

IsDigit(c) == \E i \in 1..10 : Digits[i] = c

DigitVal(c) == (CHOOSE i \in 1..10 : Digits[i] = c) - 1

IsSpace(c) == c = " "

RECURSIVE TrimLeft(_)
TrimLeft(s) ==
  IF s # <<>> /\ IsSpace(Head(s)) THEN TrimLeft(Tail(s)) ELSE s

RECURSIVE TrimRight(_)
TrimRight(s) ==
  IF s # <<>> /\ IsSpace(s[Len(s)]) THEN TrimRight(SubSeq(s, 1, Len(s) - 1)) ELSE s

\* QString::trimmed
Trimmed(s) == TrimRight(TrimLeft(s))

\* The digits of s accumulated as a negative number, so that the whole range of
\* int is representable; "ok" is false on a non-digit or on overflow below IntMin.
RECURSIVE NegAccumulate(_, _)
NegAccumulate(s, acc) ==
  IF s = <<>> THEN [ok |-> TRUE, value |-> acc]
  ELSE IF ~IsDigit(Head(s)) THEN [ok |-> FALSE, value |-> 0]
  ELSE LET d == DigitVal(Head(s))
       IN  IF acc < -(IntMax \div 10) \/ acc * 10 < IntMin + d
           THEN [ok |-> FALSE, value |-> 0]
           ELSE NegAccumulate(Tail(s), acc * 10 - d)

\* QString::toInt(&ok): surrounding white space is ignored, an optional sign,
\* then decimal digits; anything else, or a value that does not fit an int,
\* gives ok = false and the value 0.
StrToInt(s) ==
  LET t    == Trimmed(s)
      neg  == t # <<>> /\ Head(t) = "-"
      body == IF t # <<>> /\ Head(t) \in {"-", "+"} THEN Tail(t) ELSE t
      acc  == NegAccumulate(body, 0)
  IN  IF body = <<>> \/ ~acc.ok THEN [ok |-> FALSE, value |-> 0]
      ELSE IF neg THEN [ok |-> TRUE, value |-> acc.value]
      ELSE IF acc.value = IntMin THEN [ok |-> FALSE, value |-> 0]
      ELSE [ok |-> TRUE, value |-> -acc.value]

\* QString::toInt() without the flag
ToIntOf(s) == StrToInt(s).value

\* QString::indexOf(c): 0-based, -1 when absent
IndexOf(s, c) ==
  IF \E i \in 1..Len(s) : s[i] = c
  THEN (CHOOSE i \in 1..Len(s) : s[i] = c /\ \A j \in 1..(i - 1) : s[j] # c) - 1
  ELSE -1

\* QString::mid(pos, n): a negative pos is clipped to 0 (n shrinks with it), a
\* pos beyond the end gives the empty string, a negative n or one reaching
\* beyond the end gives the rest of the string.
Mid(s, pos, n) ==
  IF pos > Len(s) THEN <<>>
  ELSE LET p == IF pos < 0 THEN 0 ELSE pos
           m == IF n < 0 THEN Len(s) - p
                ELSE IF pos < 0 THEN n + pos
                ELSE n
           k == IF m > Len(s) - p THEN Len(s) - p ELSE m
       IN  IF k <= 0 THEN <<>> ELSE SubSeq(s, p + 1, p + k)

\* QString::mid(pos)
MidFrom(s, pos) == Mid(s, pos, -1)

\* QString::left(n): the whole string when n is negative or too large
Left(s, n) == IF n < 0 \/ n >= Len(s) THEN s ELSE SubSeq(s, 1, n)

\* QString::startsWith
StartsWith(s, prefix) ==
  Len(s) >= Len(prefix) /\ SubSeq(s, 1, Len(prefix)) = prefix

\* QString::split(sep): empty parts are kept, the empty string gives one empty part
RECURSIVE Split(_, _)
Split(s, sep) ==
  LET i == IndexOf(s, sep)
  IN  IF i < 0 THEN <<s>>
      ELSE <<SubSeq(s, 1, i)>> \o Split(SubSeq(s, i + 2, Len(s)), sep)

\* QStringList::join(sep)
RECURSIVE Join(_, _)
Join(parts, sep) ==
  IF parts = <<>> THEN <<>>
  ELSE IF Len(parts) = 1 THEN parts[1]
  ELSE parts[1] \o <<sep>> \o Join(Tail(parts), sep)

UpperCase == <<"A", "B", "C", "D", "E", "F", "G", "H", "I", "J", "K", "L", "M",
               "N", "O", "P", "Q", "R", "S", "T", "U", "V", "W", "X", "Y", "Z">>

LowerCase == <<"a", "b", "c", "d", "e", "f", "g", "h", "i", "j", "k", "l", "m",
               "n", "o", "p", "q", "r", "s", "t", "u", "v", "w", "x", "y", "z">>

LowerChar(c) ==
  IF \E i \in 1..26 : UpperCase[i] = c
  THEN LowerCase[CHOOSE i \in 1..26 : UpperCase[i] = c]
  ELSE c

\* QString::toLower
ToLower(s) == [i \in 1..Len(s) |-> LowerChar(s[i])]

IsLowerAlnum(c) == IsDigit(c) \/ \E i \in 1..26 : LowerCase[i] = c

-----------------------------------------------------------------------------
(* JSON: QJsonValue and QJsonObject                                        *)

JStr(s)  == [t |-> "string", s |-> s, n |-> 0, b |-> FALSE]

JNum(n)  == [t |-> "number", s |-> <<>>, n |-> n, b |-> FALSE]

JBool(b) == [t |-> "bool", s |-> <<>>, n |-> 0, b |-> b]

\* what QJsonObject::operator[] gives for a key the object does not hold
JUndefined == [t |-> "undefined", s |-> <<>>, n |-> 0, b |-> FALSE]

\* QJsonObject::contains
Contains(obj, key) == key \in DOMAIN obj

\* QJsonObject::operator[] const
Value(obj, key) == IF key \in DOMAIN obj THEN obj[key] ELSE JUndefined

\* QJsonValue::toString(): the string of a string value, empty for any other type
JToString(v) == IF v.t = "string" THEN v.s ELSE <<>>

\* QJsonValue::toInt(): the number of a number value, 0 for any other type
JToInt(v) == IF v.t = "number" THEN v.n ELSE 0

\* QJsonValue::toBool(): the flag of a bool value, false for any other type
JToBool(v) == v.t = "bool" /\ v.b

-----------------------------------------------------------------------------
(* Validator                                                               *)

\* An error message: its template ("kind"), the field it names and, for the
\* range templates, the bounds printed in it.  The empty message is NoError.
Message(kind, name, lo, hi) == [kind |-> kind, name |-> name, lo |-> lo, hi |-> hi]

NoError == Message("", "", 0, 0)

\* QStringList::removeAll("")
RemoveEmpty(errors) == SelectSeq(errors, LAMBDA e : e # NoError)

\* one alternative of the IPv4 regex: 0..255 without a leading zero
IsOctet(s) ==
  /\ Len(s) \in 1..3
  /\ \A i \in 1..Len(s) : IsDigit(s[i])
  /\ (Len(s) > 1 => s[1] # "0")
  /\ ToIntOf(s) <= 255

isIpAddrValid(ipAddr) ==
  LET parts == Split(ipAddr, ".")
  IN  Len(parts) = 4 /\ \A i \in 1..4 : IsOctet(parts[i])

\* [a-z0-9](?:[a-z0-9-]{0,61}[a-z0-9])? when minLen = 1,
\* [a-z0-9][a-z0-9-]{0,61}[a-z0-9] when minLen = 2
IsLabel(s, minLen) ==
  /\ Len(s) >= minLen /\ Len(s) <= 63
  /\ IsLowerAlnum(s[1]) /\ IsLowerAlnum(s[Len(s)])
  /\ \A i \in 1..Len(s) : IsLowerAlnum(s[i]) \/ s[i] = "-"

isDomainNameValid(domainName) ==
  LET parts == Split(domainName, ".")
  IN  /\ Len(parts) >= 2
      /\ \A i \in 1..(Len(parts) - 1) : IsLabel(parts[i], 1)
      /\ IsLabel(parts[Len(parts)], 2)

\* the directories of the file system, as QDir::exists sees them
ExistingPaths == {<<"/", "r", "u", "n">>}

isFileExists(filePath) == filePath \in ExistingPaths

\* one of the predicates handed to getStringConfigError
Checkpoint(ckpt, s) ==
  CASE ckpt = "ip"     -> isIpAddrValid(s)
    [] ckpt = "domain" -> isDomainNameValid(s)
    [] ckpt = "file"   -> isFileExists(s)

getStringConfigError(serverConfig, key, name, checkpoints) ==
  IF ~Contains(serverConfig, key) \/ JToString(Value(serverConfig, key)) = <<>>
  THEN Message("missing", name, 0, 0)
  ELSE IF checkpoints # {}
          /\ ~\E ckpt \in checkpoints : Checkpoint(ckpt, JToString(Value(serverConfig, key)))
  THEN Message("invalid", name, 0, 0)
  ELSE NoError

\* the upper bound that getNumericConfigError reads as "no upper bound"
UNBOUNDED_ABOVE == -127

\* getNumericConfigError as it would be without the check against the upper bound
getNumericConfigError_NoUpperCheck(serverConfig, key, name, lowerBound, upperBound) ==
  IF ~Contains(serverConfig, key) \/ JToString(Value(serverConfig, key)) = <<>>
  THEN Message("missing", name, 0, 0)
  ELSE LET conv == StrToInt(JToString(Value(serverConfig, key)))
       IN  IF ~conv.ok THEN Message("invalid", name, 0, 0)
           ELSE IF conv.value < lowerBound
           THEN Message("between", name, lowerBound, upperBound)
           ELSE NoError

getNumericConfigError(serverConfig, key, name, lowerBound, upperBound) ==
  IF ~Contains(serverConfig, key) \/ JToString(Value(serverConfig, key)) = <<>>
  THEN Message("missing", name, 0, 0)
  ELSE LET conv == StrToInt(JToString(Value(serverConfig, key)))
       IN  IF ~conv.ok THEN Message("invalid", name, 0, 0)
           ELSE IF upperBound = UNBOUNDED_ABOVE /\ conv.value < lowerBound
           THEN Message("above", name, lowerBound, 0)
           ELSE IF conv.value < lowerBound \/ conv.value > upperBound
           THEN Message("between", name, lowerBound, upperBound)
           ELSE NoError

getV2RayStreamSettingsErrors(serverConfig, network) ==
  IF network = <<"k", "c", "p">> THEN
    << getNumericConfigError(serverConfig, "kcpMtu", "MTU", 576, 1460),
       getNumericConfigError(serverConfig, "kcpTti", "TTI", 10, 100),
       getNumericConfigError(serverConfig, "kcpUpLink", "Uplink Capacity", 0, -127),
       getNumericConfigError(serverConfig, "kcpDownLink", "Downlink Capacity", 0, -127),
       getNumericConfigError(serverConfig, "kcpReadBuffer", "Read Buffer Size", 0, -127),
       getNumericConfigError(serverConfig, "kcpWriteBuffer", "Write Buffer Size", 0, -127),
       getStringConfigError(serverConfig, "packetHeader", "Packet Header", {}) >>
  ELSE IF network = <<"w", "s">> \/ network = <<"h", "t", "t", "p">> THEN
    << getStringConfigError(serverConfig, "networkHost", "Host", {"domain"}),
       getStringConfigError(serverConfig, "networkPath", "Path", {}) >>
  ELSE IF network = <<"d", "o", "m", "a", "i", "n", "s", "o", "c", "k", "e", "t">> THEN
    << getStringConfigError(serverConfig, "domainSocketFilePath", "Socket File Path",
                            {"file"}) >>
  ELSE IF network = <<"q", "u", "i", "c">> THEN
    << getStringConfigError(serverConfig, "quicSecurity", "QUIC Security", {}),
       getStringConfigError(serverConfig, "packetHeader", "Packet Header", {}),
       getStringConfigError(serverConfig, "quicKey", "QUIC Key", {}) >>
  ELSE <<>>

getV2RayServerConfigErrors(serverConfig) ==
  RemoveEmpty(
    << getStringConfigError(serverConfig, "serverName", "Server Name", {}),
       getStringConfigError(serverConfig, "serverAddr", "Server Address", {"ip", "domain"}),
       getNumericConfigError(serverConfig, "serverPort", "Server Port", 0, 65535),
       getStringConfigError(serverConfig, "id", "ID", {}),
       getNumericConfigError(serverConfig, "alterId", "Alter ID", 0, 65535),
       getStringConfigError(serverConfig, "security", "Security", {}),
       getNumericConfigError(serverConfig, "mux", "MUX", -1, 1024),
       getStringConfigError(serverConfig, "network", "Network", {}),
       getStringConfigError(serverConfig, "networkSecurity", "Network Security", {}) >>
    \o getV2RayStreamSettingsErrors(serverConfig, JToString(Value(serverConfig, "network"))))

getShadowsocksServerConfigErrors(serverConfig) ==
  RemoveEmpty(
    << getStringConfigError(serverConfig, "serverName", "Server Name", {}),
       getStringConfigError(serverConfig, "serverAddr", "Server Address", {"ip", "domain"}),
       getNumericConfigError(serverConfig, "serverPort", "Server Port", 0, 65535),
       getStringConfigError(serverConfig, "encryption", "Security", {}),
       getStringConfigError(serverConfig, "password", "Password", {}) >>)

getServerConfigErrors(serverConfig, protocol) ==
  IF protocol = "vmess" THEN getV2RayServerConfigErrors(serverConfig)
  ELSE IF protocol = "shadowsocks" THEN getShadowsocksServerConfigErrors(serverConfig)
  ELSE << Message("unknownProtocol", protocol, 0, 0) >>

-----------------------------------------------------------------------------
(* Config builder                                                          *)

\* The outcomes of std::rand(): getRandomUserAgents draws its User-Agent
\* strings from rand(), so two calls need not return the same list.  A list is
\* named by the run of rand() that produced it.
NumRandRuns == 2

RandRuns == 1..NumRandRuns

getRandomUserAgents(n, run) == [count |-> n, run |-> run]

getV2RayStreamSettingsConfig(serverConfig, run) ==
  LET network == JToString(Value(serverConfig, "network"))
      streamSettings ==
        [network     |-> Value(serverConfig, "network"),
         security    |-> ToLower(JToString(Value(serverConfig, "networkSecurity"))),
         tlsSettings |-> [allowInsecure |-> JToBool(Value(serverConfig, "allowInsecure"))]]
      packetHeader == ToLower(JToString(Value(serverConfig, "packetHeader")))
      tcpHeaderType == ToLower(JToString(Value(serverConfig, "tcpHeaderType")))
  IN  IF network = <<"t", "c", "p">> THEN
        ("tcpSettings" :>
           (IF tcpHeaderType = <<"h", "t", "t", "p">>
            THEN [type     |-> tcpHeaderType,
                  request  |-> [version |-> "1.1", method |-> "GET",
                                userAgents |-> getRandomUserAgents(24, run)],
                  response |-> [version |-> "1.1", status |-> "200", reason |-> "OK"]]
            ELSE [type |-> tcpHeaderType])) @@ streamSettings
      ELSE IF network = <<"k", "c", "p">> THEN
        ("kcpSettings" :>
           [mtu              |-> ToIntOf(JToString(Value(serverConfig, "kcpMtu"))),
            tti              |-> ToIntOf(JToString(Value(serverConfig, "kcpTti"))),
            uplinkCapacity   |-> ToIntOf(JToString(Value(serverConfig, "kcpUpLink"))),
            downlinkCapacity |-> ToIntOf(JToString(Value(serverConfig, "kcpDownLink"))),
            congestion       |-> JToBool(Value(serverConfig, "kcpCongestion")),
            readBufferSize   |-> ToIntOf(JToString(Value(serverConfig, "kcpReadBuffer"))),
            writeBufferSize  |-> ToIntOf(JToString(Value(serverConfig, "kcpWriteBuffer"))),
            header           |-> [type |-> packetHeader]]) @@ streamSettings
      ELSE IF network = <<"w", "s">> THEN
        ("wsSettings" :>
           [path    |-> JToString(Value(serverConfig, "networkPath")),
            headers |-> [host |-> Value(serverConfig, "networkHost")]]) @@ streamSettings
      ELSE IF network = <<"h", "t", "t", "p">> THEN
        ("httpSettings" :>
           [host |-> << JToString(Value(serverConfig, "networkHost")) >>,
            path |-> << JToString(Value(serverConfig, "networkPath")) >>]) @@ streamSettings
      ELSE IF network = <<"d", "o", "m", "a", "i", "n", "s", "o", "c", "k", "e", "t">> THEN
        ("dsSettings" :>
           [path |-> JToString(Value(serverConfig, "domainSocketFilePath"))]) @@ streamSettings
      ELSE IF network = <<"q", "u", "i", "c">> THEN
        ("quicSettings" :>
           [security |-> ToLower(JToString(Value(serverConfig, "quicSecurity"))),
            key      |-> JToString(Value(serverConfig, "quicKey")),
            header   |-> [type |-> packetHeader]]) @@ streamSettings
      ELSE streamSettings

getPrettyV2RayConfig(serverConfig, run) ==
  [autoConnect  |-> JToBool(Value(serverConfig, "autoConnect")),
   serverName   |-> JToString(Value(serverConfig, "serverName")),
   subscription |-> IF Contains(serverConfig, "subscription")
                    THEN JToString(Value(serverConfig, "subscription"))
                    ELSE <<>>,
   protocol     |-> "vmess",
   mux          |-> [enabled     |-> ToIntOf(JToString(Value(serverConfig, "mux"))) # 1,
                     concurrency |-> ToIntOf(JToString(Value(serverConfig, "mux")))],
   settings     |->
     [vnext |-> <<
        [address |-> JToString(Value(serverConfig, "serverAddr")),
         port    |-> ToIntOf(JToString(Value(serverConfig, "serverPort"))),
         users   |-> <<
           [id       |-> JToString(Value(serverConfig, "id")),
            alterId  |-> ToIntOf(JToString(Value(serverConfig, "alterId"))),
            security |-> ToLower(JToString(Value(serverConfig, "security")))] >>] >>],
   tag            |-> "proxy-vmess",
   streamSettings |-> getV2RayStreamSettingsConfig(serverConfig, run)]

getPrettyShadowsocksConfig(serverConfig) ==
  [autoConnect  |-> JToBool(Value(serverConfig, "autoConnect")),
   serverName   |-> JToString(Value(serverConfig, "serverName")),
   subscription |-> IF Contains(serverConfig, "subscription")
                    THEN JToString(Value(serverConfig, "subscription"))
                    ELSE <<>>,
   protocol     |-> "shadowsocks",
   settings     |->
     [servers |-> <<
        [address  |-> JToString(Value(serverConfig, "serverAddr")),
         port     |-> ToIntOf(JToString(Value(serverConfig, "serverPort"))),
         method   |-> ToLower(JToString(Value(serverConfig, "encryption"))),
         password |-> JToString(Value(serverConfig, "password"))] >>],
   streamSettings |-> [network |-> JStr(<<"t", "c", "p">>)],
   tag            |-> "proxy-shadowsocks"]

\* the empty QJsonObject
EmptyObject == [k \in {} |-> JUndefined]

\* an empty QJsonObject as a profile: every read of it gives the default
EmptyProfile ==
  [autoConnect |-> FALSE, serverName |-> <<>>, subscription |-> <<>>, protocol |-> ""]

getPrettyServerConfig(serverConfig, protocol, run) ==
  IF protocol = "vmess" THEN getPrettyV2RayConfig(serverConfig, run)
  ELSE IF protocol = "shadowsocks" THEN getPrettyShadowsocksConfig(serverConfig)
  ELSE EmptyProfile

-----------------------------------------------------------------------------
(* Share links                                                             *)

\* Base64 text is one symbol of a link's text, named after what it encodes;
\* decoding it (QByteArray::fromBase64, then QJsonDocument::fromJson for a
\* VMESS link) looks the symbol up.  A symbol that names nothing is text that
\* is not the base64 of a JSON object.

\* a field of a VMESS payload: absent, or a JSON value; "value" is what it denotes
Omitted(label, value) == [label |-> label, has |-> FALSE, json |-> JUndefined, value |-> value]

Given(label, json, value) == [label |-> label, has |-> TRUE, json |-> json, value |-> value]

PsForms ==
  { Omitted("-", <<>>), Given("A", JStr(<<"A">>), <<"A">>), Given("B", JStr(<<"B">>), <<"B">>) }

PortForms ==
  { Given("443s", JStr(<<"4", "4", "3">>), 443),
    Given("443n", JNum(443), 443),
    Given("8080n", JNum(8080), 8080) }

AidForms ==
  { Omitted("-", 0),
    Given("0s", JStr(<<"0">>), 0),
    Given("64s", JStr(<<"6", "4">>), 64),
    Given("64n", JNum(64), 64) }

\* "value" is the transport the net of the link stands for (h2 is the share
\* format's name of the http transport; an unknown net stands for tcp)
NetForms ==
  { Omitted("-", <<"t", "c", "p">>),
    Given("tcp", JStr(<<"t", "c", "p">>), <<"t", "c", "p">>),
    Given("kcp", JStr(<<"k", "c", "p">>), <<"k", "c", "p">>),
    Given("ws", JStr(<<"w", "s">>), <<"w", "s">>),
    Given("h2", JStr(<<"h", "2">>), <<"h", "t", "t", "p">>),
    Given("quic", JStr(<<"q", "u", "i", "c">>), <<"q", "u", "i", "c">>),
    Given("grpc", JStr(<<"g", "r", "p", "c">>), <<"t", "c", "p">>) }

\* "value" says whether the link asks for TLS
TlsForms ==
  { Omitted("-", FALSE),
    Given("empty", JStr(<<>>), FALSE),
    Given("none", JStr(<<"n", "o", "n", "e">>), FALSE),
    Given("tls", JStr(<<"t", "l", "s">>), TRUE) }

TypeForms ==
  { Omitted("-", <<>>),
    Given("none", JStr(<<"n", "o", "n", "e">>), <<"n", "o", "n", "e">>),
    Given("http", JStr(<<"h", "t", "t", "p">>), <<"h", "t", "t", "p">>) }

LinkAddr == <<"a", ".", "c", "o">>

LinkId == <<"u", "u", "i", "d">>

Optional(key, form) == IF form.has THEN key :> form.json ELSE EmptyObject

\* the JSON object a VMESS link carries, and the symbol of its base64 text
VmessPayload(ps, port, aid, net, tls, type) ==
  [blob   |-> "b64{" \o ps.label \o "," \o port.label \o "," \o aid.label \o ","
                \o net.label \o "," \o tls.label \o "," \o type.label \o "}",
   object |-> Optional("ps", ps) @@ Optional("port", port) @@ Optional("aid", aid)
                @@ Optional("net", net) @@ Optional("tls", tls) @@ Optional("type", type)
                @@ [k \in {"add", "id", "host", "path"} |->
                      CASE k = "add"  -> JStr(LinkAddr)
                        [] k = "id"   -> JStr(LinkId)
                        [] k = "host" -> JStr(<<"h", ".", "c", "o">>)
                        [] k = "path" -> JStr(<<"/", "p">>)],
   ps |-> ps, port |-> port, aid |-> aid, net |-> net, tls |-> tls, type |-> type]

VmessPayloads ==
  { VmessPayload(ps, port, aid, net, tls, type) :
      ps \in PsForms, port \in PortForms, aid \in AidForms,
      net \in NetForms, tls \in TlsForms, type \in TypeForms }

\* the JSON object each symbol encodes
VmessObjects ==
  [b \in { p.blob : p \in VmessPayloads } |->
     (CHOOSE p \in VmessPayloads : p.blob = b).object]

\* QJsonDocument::fromJson(QByteArray::fromBase64(text)).object()
JsonObjectFromBase64(text) ==
  IF Len(text) = 1 /\ text[1] \in DOMAIN VmessObjects
  THEN VmessObjects[text[1]]
  ELSE EmptyObject

\* the method:password texts whose base64 the Shadowsocks links carry
SsUserInfos ==
  { [blob |-> "b64{AES:pw}", text |-> <<"A", "E", "S", ":", "p", "w">>,
     method |-> <<"a", "e", "s">>, password |-> <<"p", "w">>],
    [blob |-> "b64{rc4:p:w}", text |-> <<"r", "c", "4", ":", "p", ":", "w">>,
     method |-> <<"r", "c", "4">>, password |-> <<"p", ":", "w">>] }

\* QByteArray::fromBase64(text) as a string
TextFromBase64(text) ==
  IF \E u \in SsUserInfos : text = << u.blob >>
  THEN (CHOOSE u \in SsUserInfos : text = << u.blob >>).text
  ELSE <<>>

\* the percent-encoded characters the links use
PercentCodes ==
  { [code |-> <<"3", "B">>, char |-> ";"],
    [code |-> <<"3", "D">>, char |-> "="],
    [code |-> <<"2", "0">>, char |-> " "] }

\* QUrl::fromPercentEncoding
RECURSIVE FromPercentEncoding(_)
FromPercentEncoding(s) ==
  IF s = <<>> THEN <<>>
  ELSE IF Head(s) = "%" /\ Len(s) >= 3
          /\ \E c \in PercentCodes : c.code = SubSeq(s, 2, 3)
  THEN << (CHOOSE c \in PercentCodes : c.code = SubSeq(s, 2, 3)).char >>
         \o FromPercentEncoding(SubSeq(s, 4, Len(s)))
  ELSE << Head(s) >> \o FromPercentEncoding(Tail(s))

\* QUrlQuery(options).queryItems(): the items between '&', each cut at its first '='
QueryItems(options) ==
  LET parts == SelectSeq(Split(options, "&"), LAMBDA part : part # <<>>)
  IN  [i \in 1..Len(parts) |->
         LET eq == IndexOf(parts[i], "=")
         IN  IF eq < 0 THEN [first |-> parts[i], second |-> <<>>]
             ELSE [first |-> Left(parts[i], eq), second |-> MidFrom(parts[i], eq + 1)]]

NetworkMapper(network) ==
  IF network = <<"h", "2">> THEN <<"h", "t", "t", "p">>
  ELSE IF network \in { <<"t", "c", "p">>, <<"k", "c", "p">>, <<"w", "s">>, <<"q", "u", "i", "c">> }
  THEN network
  ELSE <<"t", "c", "p">>

getV2RayServerFromUrl(server, subscriptionUrl) ==
  LET rawServerConfig == JsonObjectFromBase64(MidFrom(server, 8))
      Field(key) == IF Contains(rawServerConfig, key)
                    THEN JToString(Value(rawServerConfig, key))
                    ELSE <<>>
      network    == IF Contains(rawServerConfig, "net")
                    THEN JToString(Value(rawServerConfig, "net"))
                    ELSE <<"t", "c", "p">>
      serverAddr == Field("add")
  IN  [k \in {"autoConnect", "serverName", "serverAddr", "serverPort", "subscription",
              "id", "alterId", "mux", "security", "network", "networkHost",
              "networkPath", "tcpHeaderType", "networkSecurity"} |->
         CASE k = "autoConnect"   -> JBool(FALSE)
           [] k = "serverName"    -> JStr(IF Contains(rawServerConfig, "ps")
                                          THEN JToString(Value(rawServerConfig, "ps"))
                                          ELSE serverAddr)
           [] k = "serverAddr"    -> JStr(serverAddr)
           [] k = "serverPort"    -> JNum(IF Contains(rawServerConfig, "port")
                                          THEN JToInt(Value(rawServerConfig, "port"))
                                          ELSE 0)
           [] k = "subscription"  -> JStr(subscriptionUrl)
           [] k = "id"            -> JStr(Field("id"))
           [] k = "alterId"       -> JNum(IF Contains(rawServerConfig, "aid")
                                          THEN ToIntOf(JToString(Value(rawServerConfig, "aid")))
                                          ELSE 0)
           [] k = "mux"           -> JNum(-1)
           [] k = "security"      -> JStr(<<"a", "u", "t", "o">>)
           [] k = "network"       -> JStr(NetworkMapper(network))
           [] k = "networkHost"   -> JStr(Field("host"))
           [] k = "networkPath"   -> JStr(Field("path"))
           [] k = "tcpHeaderType" -> JStr(Field("type"))
           [] k = "networkSecurity" ->
                JStr(IF Contains(rawServerConfig, "tls")
                     THEN <<"t", "l", "s">> ELSE <<"n", "o", "n", "e">>)]

\* the inner loop of getShadowsocksServerFromUrl: each "key=value" of the
\* plugin text is put into the options, a later key replacing an earlier one
RECURSIVE ObfsFromParts(_, _)
ObfsFromParts(obfs, obfsOptions) ==
  IF obfs = <<>> THEN obfsOptions
  ELSE LET t == Split(Head(obfs), "=")
       IN  ObfsFromParts(Tail(obfs),
                         IF Len(t) = 2 THEN (t[1] :> t[2]) @@ obfsOptions ELSE obfsOptions)

\* the outer loop: the items of the query named "plugin"
RECURSIVE ObfsFromItems(_, _)
ObfsFromItems(items, obfsOptions) ==
  IF items = <<>> THEN obfsOptions
  ELSE ObfsFromItems(Tail(items),
         IF Head(items).first = <<"p", "l", "u", "g", "i", "n">>
         THEN ObfsFromParts(Split(FromPercentEncoding(Head(items).second), ";"), obfsOptions)
         ELSE obfsOptions)

\* a JSON value holding an object
JObject(members) == [t |-> "object", s |-> <<>>, n |-> 0, b |-> FALSE, o |-> members]

getShadowsocksServerFromUrl(link, subscriptionUrl) ==
  LET serverUrl         == MidFrom(link, 5)
      atIndex           == IndexOf(serverUrl, "@")
      colonIndex        == IndexOf(serverUrl, ":")
      splashIndex       == IndexOf(serverUrl, "/")
      sharpIndex        == IndexOf(serverUrl, "#")
      questionMarkIndex == IndexOf(serverUrl, "?")
      confidential      == TextFromBase64(Left(serverUrl, atIndex))
      serverAddr        == Mid(serverUrl, atIndex + 1, colonIndex - atIndex - 1)
      serverPort        == ToIntOf(Mid(serverUrl, colonIndex + 1, splashIndex - colonIndex - 1))
      options           == Mid(serverUrl, questionMarkIndex + 1,
                               sharpIndex - questionMarkIndex - 1)
      serverName        == FromPercentEncoding(MidFrom(serverUrl, sharpIndex + 1))
      colonIndex2       == IndexOf(confidential, ":")
      encryption        == Left(confidential, colonIndex2)
      password          == MidFrom(confidential, colonIndex2 + 1)
      obfsOptions       == ObfsFromItems(QueryItems(options), EmptyObject)
      serverConfig ==
        [k \in {"serverName", "autoConnect", "subscription", "serverAddr",
                "serverPort", "encryption", "password"} |->
           CASE k = "serverName"   -> JStr(serverName)
             [] k = "autoConnect"  -> JBool(FALSE)
             [] k = "subscription" -> JStr(subscriptionUrl)
             [] k = "serverAddr"   -> JStr(serverAddr)
             [] k = "serverPort"   -> JNum(serverPort)
             [] k = "encryption"   -> JStr(encryption)
             [] k = "password"     -> JStr(password)]
  IN  IF DOMAIN obfsOptions # {}
      THEN ("obfs" :> JObject(obfsOptions)) @@ serverConfig
      ELSE serverConfig

-----------------------------------------------------------------------------
(* Configurator: the profile store and the application settings            *)

\* Configurator::addServer: the profile is stored under its name
ConfiguratorAddServer(store, serverConfig) ==
  (serverConfig.serverName :> serverConfig) @@ store

\* Configurator::removeSubscriptionServers: the profiles of a subscription are
\* removed and returned, keyed by name
ConfiguratorRemoveSubscriptionServers(store, subscriptionUrl) ==
  LET gone == { n \in DOMAIN store : store[n].subscription = subscriptionUrl }
  IN  [store   |-> [n \in DOMAIN store \ gone |-> store[n]],
       removed |-> [n \in gone |-> store[n]]]

\* Configurator::editServer: the profile stored under serverName is replaced
\* by serverConfig, under the name serverConfig gives; false when there is none
ConfiguratorEditServer(store, serverName, serverConfig) ==
  IF serverName \in DOMAIN store
  THEN [ok    |-> TRUE,
        store |-> (serverConfig.serverName :> serverConfig)
                    @@ [n \in DOMAIN store \ {serverName} |-> store[n]]]
  ELSE [ok |-> FALSE, store |-> store]

\* Configurator::setServerConnection: the autoConnect flag of a profile
ConfiguratorSetServerConnection(store, serverName, connected) ==
  IF serverName \in DOMAIN store
  THEN [store EXCEPT ![serverName].autoConnect = connected]
  ELSE store

\* Configurator::setAppConfig: the given keys replace the stored ones
ConfiguratorSetAppConfig(stored, config) == config @@ stored

-----------------------------------------------------------------------------
(* Effects of a handler: the signals it emits and the calls it makes on    *)
(* its collaborators (the store, the engine, the operating system)         *)

Effect(name, arg) == [name |-> name, arg |-> arg]

\* the effects of a kind among a handler's effects
Of(effs, name) == SelectSeq(effs, LAMBDA e : e.name = name)

-----------------------------------------------------------------------------
(* Inputs of the validator                                                 *)

\* A numeric field as the user submits it: absent, or a text.  "isInt" and
\* "value" say what the text denotes to a reader, independently of toInt;
\* "huge" marks an integer too large for an int.
Absent == [present |-> FALSE, text |-> <<>>, isInt |-> FALSE, huge |-> FALSE, value |-> 0]

TextOf(text, isInt, value) ==
  [present |-> TRUE, text |-> text, isInt |-> isInt, huge |-> FALSE, value |-> value]

NumericInputs ==
  { Absent,
    TextOf(<<>>, FALSE, 0),
    TextOf(<<"a", "b", "c">>, FALSE, 0),
    TextOf(<<"1", ".", "5">>, FALSE, 0),
    TextOf(<<"1", "2", "x">>, FALSE, 0),
    [present |-> TRUE, text |-> <<"3", "0", "0", "0", "0", "0", "0", "0", "0", "0">>,
     isInt |-> TRUE, huge |-> TRUE, value |-> 0],
    TextOf(<<"-", "2">>, TRUE, -2),
    TextOf(<<"-", "1">>, TRUE, -1),
    TextOf(<<"0">>, TRUE, 0),
    TextOf(<<"1">>, TRUE, 1),
    TextOf(<<"9">>, TRUE, 9),
    TextOf(<<"1", "0">>, TRUE, 10),
    TextOf(<<" ", "6", "4">>, TRUE, 64),
    TextOf(<<"1", "0", "0">>, TRUE, 100),
    TextOf(<<"1", "0", "1">>, TRUE, 101),
    TextOf(<<"5", "7", "5">>, TRUE, 575),
    TextOf(<<"5", "7", "6">>, TRUE, 576),
    TextOf(<<"1", "0", "2", "4">>, TRUE, 1024),
    TextOf(<<"1", "0", "2", "5">>, TRUE, 1025),
    TextOf(<<"1", "4", "6", "0">>, TRUE, 1460),
    TextOf(<<"1", "4", "6", "1">>, TRUE, 1461),
    TextOf(<<"2", "0", "0", "0">>, TRUE, 2000),
    TextOf(<<"6", "5", "5", "3", "5">>, TRUE, 65535),
    TextOf(<<"6", "5", "5", "3", "6">>, TRUE, 65536) }

NumericKeys ==
  {"serverPort", "alterId", "mux", "kcpMtu", "kcpTti",
   "kcpUpLink", "kcpDownLink", "kcpReadBuffer", "kcpWriteBuffer"}

\* a submission in which every numeric field is in range
ValidNumerics ==
  [k \in NumericKeys |->
     CASE k = "serverPort" -> TextOf(<<"4", "4", "3">>, TRUE, 443)
       [] k = "alterId"    -> TextOf(<<"6", "4">>, TRUE, 64)
       [] k = "mux"        -> TextOf(<<"8">>, TRUE, 8)
       [] k = "kcpMtu"     -> TextOf(<<"1", "3", "5", "0">>, TRUE, 1350)
       [] k = "kcpTti"     -> TextOf(<<"2", "0">>, TRUE, 20)
       [] OTHER            -> TextOf(<<"5">>, TRUE, 5)]

\* the numeric fields of the submissions checked: up to two of them differ
\* from ValidNumerics
NumericSubmissions ==
  { [ValidNumerics EXCEPT ![k1] = v1, ![k2] = v2] :
      k1 \in NumericKeys, k2 \in NumericKeys, v1 \in NumericInputs, v2 \in NumericInputs }

AddrValid == <<"a", ".", "c", "o">>

AddrInvalid == <<"a", "_", "b">>

NetworkTexts == { <<"t", "c", "p">>, <<"k", "c", "p">>, <<"w", "s">> }

\* the JSON object the UI sends for a VMESS profile
V2RayForm(name, addr, network, numerics) ==
  LET strings ==
        [k \in {"serverName", "serverAddr", "id", "security", "network",
                "networkSecurity", "packetHeader", "networkHost", "networkPath",
                "tcpHeaderType"} |->
           CASE k = "serverName"      -> JStr(name)
             [] k = "serverAddr"      -> JStr(addr)
             [] k = "id"              -> JStr(<<"u", "1">>)
             [] k = "security"        -> JStr(<<"A", "u", "t", "o">>)
             [] k = "network"         -> JStr(network)
             [] k = "networkSecurity" -> JStr(<<"T", "L", "S">>)
             [] k = "packetHeader"    -> JStr(<<"S", "R", "T", "P">>)
             [] k = "networkHost"     -> JStr(<<"h", ".", "c", "o">>)
             [] k = "networkPath"     -> JStr(<<"/", "p">>)
             [] k = "tcpHeaderType"   -> JStr(<<"n", "o", "n", "e">>)]
      present == {k \in NumericKeys : numerics[k].present}
  IN  [k \in DOMAIN strings \cup present |->
         IF k \in present THEN JStr(numerics[k].text) ELSE strings[k]]

-----------------------------------------------------------------------------
(* The state outside the operation under study                             *)

NoServers == [n \in {} |-> 0]

NoLatency == [n \in {} |-> 0]

NoAppConfig == [k \in {} |-> JUndefined]

NoImport == [done |-> FALSE, url |-> <<>>, bundle |-> <<>>]

NotReturned == [done |-> FALSE, errors |-> <<>>]

NoRemote == [url |-> <<>>, bundle |-> <<>>]

-----------------------------------------------------------------------------
(* SpecValidate: the validator applied to submitted VMESS profiles         *)

InitValidate ==
  /\ servers = NoServers
  /\ appConfig = NoAppConfig
  /\ serverLatency = NoLatency
  /\ effects = <<>>
  /\ imported = NoImport
  /\ remote = NoRemote
  /\ ret = NotReturned
  /\ pacServerRunning = FALSE
  /\ coreStatusShown = "none"
  /\ call \in { [op |-> "getV2RayServerConfigErrors", addr |-> a, network |-> nw,
                 numerics |-> nums] :
                a \in {AddrValid, AddrInvalid}, nw \in NetworkTexts,
                nums \in NumericSubmissions }

ValidateV2Ray ==
  /\ call.op = "getV2RayServerConfigErrors"
  /\ ~ret.done
  /\ ret' = [done |-> TRUE,
             errors |-> getV2RayServerConfigErrors(
                          V2RayForm(<<"A">>, call.addr, call.network, call.numerics))]
  /\ UNCHANGED <<servers, appConfig, serverLatency, call, effects, imported, remote, pacServerRunning, coreStatusShown>>

NextValidate == ValidateV2Ray

SpecValidate == InitValidate /\ [][NextValidate]_vars

\* the messages of the result that name a field
Naming(errors, name) == SelectSeq(errors, LAMBDA e : e.name = name)

\* The closed ranges of the numeric fields and the name each is shown under.
ClosedRange ==
  [k \in {"alterId", "mux", "kcpMtu", "kcpTti"} |->
     CASE k = "alterId" -> [name |-> "Alter ID", lo |-> 0, hi |-> 65535, kcp |-> FALSE]
       [] k = "mux"     -> [name |-> "MUX", lo |-> -1, hi |-> 1024, kcp |-> FALSE]
       [] k = "kcpMtu"  -> [name |-> "MTU", lo |-> 576, hi |-> 1460, kcp |-> TRUE]
       [] k = "kcpTti"  -> [name |-> "TTI", lo |-> 10, hi |-> 100, kcp |-> TRUE]]

\* the messages the claim expects for a closed-range field holding input v
ExpectedClosed(r, v) ==
  IF ~v.present \/ v.text = <<>> THEN << Message("missing", r.name, 0, 0) >>
  ELSE IF ~v.isInt \/ v.huge THEN << Message("invalid", r.name, 0, 0) >>
  ELSE IF v.value < r.lo \/ v.value > r.hi THEN << Message("between", r.name, r.lo, r.hi) >>
  ELSE <<>>

\* C9: for every numeric field with a closed range [lo, hi] (a kcp field being
\* checked when the transport is kcp), the validator's result holds exactly one
\* message naming the field when its value is absent or empty ("Missing the
\* value of"), not parseable as an int ("seems invalid") or an integer outside
\* [lo, hi] ("should between lo and hi"), and none when it is an integer inside
\* [lo, hi], whatever the other fields of the record hold.
C9_ClosedRangeOneMessage ==
  ret.done =>
    \A k \in DOMAIN ClosedRange :
      (ClosedRange[k].kcp => call.network = <<"k", "c", "p">>) =>
        Naming(ret.errors, ClosedRange[k].name)
          = ExpectedClosed(ClosedRange[k], call.numerics[k])

\* C9 witness: a kcp submission with an out-of-range MTU, a missing TTI and an
\* invalid address has been validated.
C9_Witness ==
  /\ ret.done
  /\ call.network = <<"k", "c", "p">>
  /\ call.addr = AddrInvalid
  /\ call.numerics["kcpMtu"].value = 2000
  /\ ~call.numerics["kcpTti"].present
  /\ Len(Naming(ret.errors, "MTU")) = 1
  /\ Len(Naming(ret.errors, "TTI")) = 1

UnboundedAbove ==
  [k \in {"kcpUpLink", "kcpDownLink", "kcpReadBuffer", "kcpWriteBuffer"} |->
     CASE k = "kcpUpLink"      -> "Uplink Capacity"
       [] k = "kcpDownLink"    -> "Downlink Capacity"
       [] k = "kcpReadBuffer"  -> "Read Buffer Size"
       [] k = "kcpWriteBuffer" -> "Write Buffer Size"]

\* C10: for the kcp fields without an upper bound, every integer value in
\* [0, infinity) is accepted with no message for the field and every value
\* below 0 yields exactly one; so a kcp profile whose fields are all in their
\* documented ranges validates with an empty error list.
C10_UnboundedAboveAccepted ==
  (ret.done /\ call.network = <<"k", "c", "p">>) =>
    /\ \A k \in DOMAIN UnboundedAbove :
         LET v == call.numerics[k]
         IN  (v.present /\ v.isInt /\ ~v.huge) =>
               Len(Naming(ret.errors, UnboundedAbove[k])) = IF v.value >= 0 THEN 0 ELSE 1
    /\ (call.numerics = ValidNumerics /\ call.addr = AddrValid) => ret.errors = <<>>

\* C11: the validator returns a message naming the port for every serverPort
\* that is an integer outside 1..65535, 0 included, so no record with port 0
\* passes validation.
C11_PortValidatedFromOne ==
  ret.done =>
    LET v == call.numerics["serverPort"]
    IN  (v.present /\ v.isInt /\ ~v.huge /\ (v.value < 1 \/ v.value > 65535)) =>
          Len(Naming(ret.errors, "Server Port")) = 1

-----------------------------------------------------------------------------
(* SpecCodec: a share link decoded and built into a runtime config         *)

VmessScheme == <<"v", "m", "e", "s", "s", ":", "/", "/">>

\* the vmess:// link carrying a payload
VmessLink(payload) == VmessScheme \o << payload.blob >>

SubscriptionUrls == { <<"u", "1">>, <<"u", "2">> }

\* what the sender of a payload meant by it
Denoted(payload) ==
  [name |-> IF payload.ps.has THEN payload.ps.value ELSE LinkAddr,
   port |-> payload.port.value,
   aid  |-> payload.aid.value,
   net  |-> payload.net.value,
   tls  |-> payload.tls.value,
   type |-> payload.type.value]

InitCodec ==
  /\ servers = NoServers
  /\ appConfig = NoAppConfig
  /\ serverLatency = NoLatency
  /\ effects = <<>>
  /\ imported = NoImport
  /\ remote = NoRemote
  /\ ret = NotReturned
  /\ pacServerRunning = FALSE
  /\ coreStatusShown = "none"
  /\ call \in { [op |-> "vmess", link |-> VmessLink(p), url |-> u, sent |-> Denoted(p)] :
                p \in VmessPayloads, u \in SubscriptionUrls }

\* getPrettyV2RayConfig(getV2RayServerFromUrl(link, url)), as addSubscriptionServers calls it
BuildVmessLink ==
  /\ call.op = "vmess"
  /\ ~ret.done
  /\ \E run \in RandRuns :
       ret' = [done |-> TRUE,
               config |-> getPrettyV2RayConfig(getV2RayServerFromUrl(call.link, call.url), run)]
  /\ UNCHANGED <<servers, appConfig, serverLatency, call, effects, imported, remote, pacServerRunning, coreStatusShown>>

NextCodec == BuildVmessLink

SpecCodec == InitCodec /\ [][NextCodec]_vars

\* C3: for every vmess:// link whose payload holds add, port, id, aid and net,
\* the runtime config built from the decoded link has the address, port, id,
\* alterId and network of the link (aid defaulting to 0, an unknown net to
\* tcp): the port and the alterId of the link are not lost or replaced by 0.
C3_VmessRoundTrip ==
  (ret.done /\ call.op = "vmess") =>
    LET vnext == ret.config.settings.vnext[1]
    IN  /\ vnext.address = LinkAddr
        /\ vnext.port = call.sent.port
        /\ vnext.users[1].id = LinkId
        /\ vnext.users[1].alterId = call.sent.aid
        /\ JToString(ret.config.streamSettings.network) = call.sent.net

\* C16: the runtime config built from a decoded vmess:// link, whose mux is
\* defaulted to -1, has the mux block {enabled: true, concurrency: -1}, that
\* is {enabled: muxConcurrency # 1, concurrency: muxConcurrency}.
C16_LinkMuxDefaultKept ==
  (ret.done /\ call.op = "vmess") =>
    ret.config.mux = [enabled |-> TRUE, concurrency |-> -1]

\* C21: a decoded vmess:// link has networkSecurity "tls" exactly when the
\* link asks for TLS (a link without a tls field, or with tls "" or "none",
\* is decoded with networkSecurity "none"), and the streamSettings.security
\* of the runtime config built from it is that value.
C21_TlsOnlyWhenRequested ==
  (ret.done /\ call.op = "vmess") =>
    LET decoded == getV2RayServerFromUrl(call.link, call.url)
        wanted  == IF call.sent.tls THEN <<"t", "l", "s">> ELSE <<"n", "o", "n", "e">>
    IN  /\ JToString(Value(decoded, "networkSecurity")) = wanted
        /\ ret.config.streamSettings.security = wanted

-----------------------------------------------------------------------------
(* Subscription importer                                                   *)

SsScheme == <<"s", "s", ":", "/", "/">>

\* DecodeLine as it would be without the test for obfuscation options
DecodeLine_KeepObfs(server, subsriptionUrl, run) ==
  IF StartsWith(server, SsScheme) THEN
    [skip   |-> FALSE,
     config |-> getPrettyShadowsocksConfig(getShadowsocksServerFromUrl(server, subsriptionUrl))]
  ELSE IF StartsWith(server, VmessScheme) THEN
    [skip   |-> FALSE,
     config |-> getPrettyV2RayConfig(getV2RayServerFromUrl(server, subsriptionUrl), run)]
  ELSE [skip |-> TRUE, config |-> EmptyProfile]

\* one line of a bundle decoded: the profile to persist, or nothing
DecodeLine(server, subsriptionUrl, run) ==
  IF StartsWith(server, SsScheme) THEN
    LET serverConfig == getShadowsocksServerFromUrl(server, subsriptionUrl)
    IN  IF Contains(serverConfig, "obfs")
        THEN [skip |-> TRUE, config |-> EmptyProfile]
        ELSE [skip |-> FALSE, config |-> getPrettyShadowsocksConfig(serverConfig)]
  ELSE IF StartsWith(server, VmessScheme) THEN
    [skip   |-> FALSE,
     config |-> getPrettyV2RayConfig(getV2RayServerFromUrl(server, subsriptionUrl), run)]
  ELSE [skip |-> TRUE, config |-> EmptyProfile]

\* RecoverAutoConnect as it would be if the removed profiles were not consulted
RecoverAutoConnect_AlwaysFalse(serverConfig, removedServers) ==
  [serverConfig EXCEPT !.autoConnect = FALSE]

\* the autoConnect flag of the removed profile of the same name, else false
RecoverAutoConnect(serverConfig, removedServers) ==
  [serverConfig EXCEPT !.autoConnect =
     IF serverConfig.serverName \in DOMAIN removedServers
     THEN removedServers[serverConfig.serverName].autoConnect
     ELSE FALSE]

\* Persist as it would be if the change were signalled for each profile
Persist_SignalEach(serverConfig, state) ==
  [store   |-> ConfiguratorAddServer(state.store, serverConfig),
   effects |-> state.effects \o << Effect("configurator.addServer", serverConfig),
                                   Effect("serversChanged", <<>>) >>]

\* the profile is handed to the store
Persist(serverConfig, state) ==
  [store   |-> ConfiguratorAddServer(state.store, serverConfig),
   effects |-> Append(state.effects, Effect("configurator.addServer", serverConfig))]

\* the body of the loop of addSubscriptionServers, for the i-th line
ImportLine(server, i, subsriptionUrl, removedServers, state, run) ==
  LET decoded == DecodeLine(server, subsriptionUrl, run)
  IN  IF decoded.skip THEN state
      ELSE Persist(RecoverAutoConnect(decoded.config, removedServers), state)

RECURSIVE ImportLines(_, _, _, _, _, _)
ImportLines(lines, i, subsriptionUrl, removedServers, state, run) ==
  IF i > Len(lines) THEN state
  ELSE ImportLines(lines, i + 1, subsriptionUrl, removedServers,
                   ImportLine(lines[i], i, subsriptionUrl, removedServers, state, run),
                   run)

FetchFailed == <<"F", "a", "i", "l", "e", "d">>

\* addSubscriptionServers as it would be if the old profiles were removed
\* before the bundle is looked at
addSubscriptionServers_RemoveFirst(subsriptionServers, subsriptionUrl, run) ==
  LET rest  == ConfiguratorRemoveSubscriptionServers(servers, subsriptionUrl)
      start == [store   |-> rest.store,
                effects |-> << Effect("configurator.removeSubscriptionServers",
                                      subsriptionUrl) >>]
      done  == ImportLines(Split(subsriptionServers, "\n"), 1, subsriptionUrl,
                           rest.removed, start, run)
  IN  /\ call' = [op |-> "addSubscriptionServers", bundle |-> subsriptionServers,
                  url |-> subsriptionUrl]
      /\ IF subsriptionServers = <<>>
         THEN /\ servers' = rest.store
              /\ effects' = << Effect("serverConfigError", FetchFailed) >>
              /\ UNCHANGED imported
         ELSE /\ servers' = done.store
              /\ effects' = Append(done.effects, Effect("serversChanged", <<>>))
              /\ imported' = [done |-> TRUE, url |-> subsriptionUrl,
                              bundle |-> subsriptionServers]
      /\ UNCHANGED <<appConfig, serverLatency, remote, ret, pacServerRunning, coreStatusShown>>

addSubscriptionServers(subsriptionServers, subsriptionUrl, run) ==
  /\ call' = [op |-> "addSubscriptionServers", bundle |-> subsriptionServers,
              url |-> subsriptionUrl]
  /\ IF subsriptionServers = <<>>
     THEN /\ effects' = << Effect("serverConfigError", FetchFailed) >>
          /\ UNCHANGED <<servers, imported>>
     ELSE LET rest  == ConfiguratorRemoveSubscriptionServers(servers, subsriptionUrl)
              start == [store   |-> rest.store,
                        effects |-> << Effect("configurator.removeSubscriptionServers",
                                              subsriptionUrl) >>]
              done  == ImportLines(Split(subsriptionServers, "\n"), 1, subsriptionUrl,
                                   rest.removed, start, run)
          IN  /\ servers' = done.store
              /\ effects' = Append(done.effects, Effect("serversChanged", <<>>))
              /\ imported' = [done |-> TRUE, url |-> subsriptionUrl,
                              bundle |-> subsriptionServers]
  /\ UNCHANGED <<appConfig, serverLatency, remote, ret, pacServerRunning, coreStatusShown>>

setServerConnection(serverName, connected) ==
  /\ call' = [op |-> "setServerConnection", serverName |-> serverName,
              connected |-> connected]
  /\ servers' = ConfiguratorSetServerConnection(servers, serverName, connected)
  /\ effects' = << Effect("configurator.setServerConnection", <<serverName, connected>>),
                   Effect("v2ray.restart", <<>>),
                   Effect("serverConnectivityChanged", <<serverName, connected>>) >>
  /\ UNCHANGED <<appConfig, serverLatency, imported, remote, ret, pacServerRunning, coreStatusShown>>

-----------------------------------------------------------------------------
(* SpecImport: bundles delivered by the worker, the user toggling profiles *)

\* the ss:// link of a server; "query" is the text from '?' on, if any
SsLink(userInfo, host, port, query, name) ==
  SsScheme \o << userInfo.blob, "@" >> \o host \o <<":">> \o port \o <<"/">>
    \o query \o <<"#">> \o name

PlainPayload ==
  VmessPayload(Given("A", JStr(<<"A">>), <<"A">>), Given("443s", JStr(<<"4", "4", "3">>), 443),
               Given("64s", JStr(<<"6", "4">>), 64), Given("ws", JStr(<<"w", "s">>), <<"w", "s">>),
               Given("tls", JStr(<<"t", "l", "s">>), TRUE), Omitted("-", <<>>))

CamouflagePayload ==
  VmessPayload(Given("B", JStr(<<"B">>), <<"B">>), Given("443n", JNum(443), 443),
               Omitted("-", 0), Given("tcp", JStr(<<"t", "c", "p">>), <<"t", "c", "p">>),
               Omitted("-", FALSE),
               Given("http", JStr(<<"h", "t", "t", "p">>), <<"h", "t", "t", "p">>))

\* The lines a bundle is made of.  "scheme" is what the line starts with,
\* "decodable" whether it is a well-formed link of a supported scheme, "obfs"
\* whether it carries a plugin parameter of the form key=value;key=value, and
\* "name" the name of the server it describes.
BundleLines ==
  { [text |-> VmessLink(PlainPayload), scheme |-> "vmess", decodable |-> TRUE,
     obfs |-> FALSE, name |-> <<"A">>],
    [text |-> VmessLink(CamouflagePayload), scheme |-> "vmess", decodable |-> TRUE,
     obfs |-> FALSE, name |-> <<"B">>],
    [text |-> VmessScheme \o << "b64{junk}" >>, scheme |-> "vmess", decodable |-> FALSE,
     obfs |-> FALSE, name |-> <<>>],
    [text |-> SsLink(CHOOSE u \in SsUserInfos : u.blob = "b64{AES:pw}",
                     <<"s", ".", "c", "o">>, <<"8", "3", "8", "8">>, <<>>, <<"A">>),
     scheme |-> "ss", decodable |-> TRUE, obfs |-> FALSE, name |-> <<"A">>],
    [text |-> SsLink(CHOOSE u \in SsUserInfos : u.blob = "b64{rc4:p:w}",
                     <<"s", ".", "c", "o">>, <<"8", "3", "8", "8">>,
                     <<"?", "p", "l", "u", "g", "i", "n", "=", "o", "%", "3", "B",
                       "o", "b", "f", "s", "%", "3", "D", "h", "t", "t", "p">>,
                     <<"C">>),
     scheme |-> "ss", decodable |-> TRUE, obfs |-> TRUE, name |-> <<"C">>],
    [text |-> <<"t", "r", "o", "j", "a", "n", ":", "/", "/", "x">>, scheme |-> "other",
     decodable |-> FALSE, obfs |-> FALSE, name |-> <<>>],
    [text |-> <<>>, scheme |-> "", decodable |-> FALSE, obfs |-> FALSE, name |-> <<>>] }

\* the most lines a bundle holds
MaxLines == 2

RECURSIVE LineSeqs(_)
LineSeqs(n) ==
  IF n = 0 THEN { <<>> }
  ELSE LET shorter == LineSeqs(n - 1)
       IN  shorter \cup { Append(ls, l.text) : ls \in shorter, l \in BundleLines }

\* the bundle texts the worker may deliver; the empty text is a failed fetch
Bundles == { Join(ls, "\n") : ls \in LineSeqs(MaxLines) }

\* what the bundle line of a given text is
LineInfo(text) == CHOOSE l \in BundleLines : l.text = text

\* profiles that are in the store before any import: one added by hand, one
\* left by an earlier import of a subscription
ManualProfile(name) ==
  [getPrettyShadowsocksConfig(
     [k \in {"serverName", "serverAddr", "serverPort", "encryption", "password"} |->
        CASE k = "serverName" -> JStr(name)
          [] k = "serverAddr" -> JStr(<<"m", ".", "c", "o">>)
          [] k = "serverPort" -> JStr(<<"8", "0">>)
          [] k = "encryption" -> JStr(<<"A", "E", "S">>)
          [] k = "password"   -> JStr(<<"p", "w">>)])
   EXCEPT !.autoConnect = TRUE]

EarlierProfile(subscriptionUrl) ==
  [getPrettyShadowsocksConfig(getShadowsocksServerFromUrl(
     SsLink(CHOOSE u \in SsUserInfos : u.blob = "b64{AES:pw}",
            <<"s", ".", "c", "o">>, <<"8", "3", "8", "8">>, <<>>, <<"A">>),
     subscriptionUrl))
   EXCEPT !.autoConnect = TRUE]

\* the subscription that is imported
ImportUrl == <<"u", "1">>

InitialStores ==
  { NoServers,
    (<<"M">> :> ManualProfile(<<"M">>)) @@ (<<"A">> :> EarlierProfile(ImportUrl)),
    (<<"B">> :> ManualProfile(<<"B">>)) @@ (<<"C">> :> EarlierProfile(<<"u", "2">>)) }

\* the profiles the user toggles
ToggledNames == { <<"A">>, <<"B">> }

InitImport ==
  /\ servers \in InitialStores
  /\ appConfig = NoAppConfig
  /\ serverLatency = NoLatency
  /\ call = [op |-> "none"]
  /\ effects = <<>>
  /\ imported = NoImport
  /\ remote \in { [url |-> ImportUrl, bundle |-> b] : b \in Bundles }
  /\ ret = NotReturned
  /\ pacServerRunning = FALSE
  /\ coreStatusShown = "none"

\* The worker delivers what the subscription serves, or nothing when the
\* fetch fails; the user connects and disconnects profiles.
NextImport ==
  \/ \E b \in { remote.bundle, <<>> }, run \in RandRuns :
       addSubscriptionServers(b, remote.url, run)
  \/ \E n \in ToggledNames, c \in BOOLEAN : setServerConnection(n, c)

SpecImport == InitImport /\ [][NextImport]_vars

\* the import that ran last, if the last handler was a successful import
Imported == call.op = "addSubscriptionServers" /\ call.bundle # <<>>

\* the profiles that import handed to the store, in order
Added == [i \in 1..Len(Of(effects, "configurator.addServer")) |->
            Of(effects, "configurator.addServer")[i].arg]

\* the lines of the bundle of that import, as the sender wrote them
SentLines == [i \in 1..Len(Split(call.bundle, "\n")) |-> LineInfo(Split(call.bundle, "\n")[i])]

\* the names of the profiles of a subscription
OfUrl(store, url) == { n \in DOMAIN store : store[n].subscription = url }

\* a profile without the User-Agent strings drawn for its HTTP camouflage
WithoutUserAgents(profile) ==
  IF /\ "streamSettings" \in DOMAIN profile
     /\ "tcpSettings" \in DOMAIN profile.streamSettings
     /\ "request" \in DOMAIN profile.streamSettings.tcpSettings
  THEN [profile EXCEPT !.streamSettings.tcpSettings.request.userAgents = <<>>]
  ELSE profile

\* a step that delivers again the bundle of the last import of the same URL
Reimport ==
  /\ call'.op = "addSubscriptionServers" /\ call'.bundle # <<>>
  /\ imported.done /\ imported.url = call'.url /\ imported.bundle = call'.bundle

\* a step that delivers a bundle: profiles of the URL under a new name are not
\* auto-connected
NewNamesNotAutoConnected ==
  (call'.op = "addSubscriptionServers" /\ call'.bundle # <<>>) =>
    \A n \in OfUrl(servers', call'.url) \ OfUrl(servers, call'.url) :
      ~servers'[n].autoConnect

\* C4 as stated: delivering the same bundle for the same URL again, the user
\* having set autoConnect on imported profiles in between, leaves the same
\* profiles for that URL (same names, same fields), each with the autoConnect
\* value it had just before; profiles with a new name get autoConnect = false.
C4_ReimportSameProfiles ==
  [][ /\ NewNamesNotAutoConnected
      /\ Reimport =>
           /\ OfUrl(servers', call'.url) = OfUrl(servers, call'.url)
           /\ \A n \in OfUrl(servers, call'.url) : servers'[n] = servers[n] ]_vars

\* C4 as amended: the same, except that the User-Agent strings of a profile
\* with HTTP camouflage are drawn anew by each import and need not be the same.
C4_ReimportSameButUserAgents ==
  [][ /\ NewNamesNotAutoConnected
      /\ Reimport =>
           /\ OfUrl(servers', call'.url) = OfUrl(servers, call'.url)
           /\ \A n \in OfUrl(servers, call'.url) :
                /\ WithoutUserAgents(servers'[n]) = WithoutUserAgents(servers[n])
                /\ servers'[n].autoConnect = servers[n].autoConnect ]_vars

\* C4 witness: the camouflaged VMESS profile B of the subscription is
\* auto-connected after an import, which it is only when the user connected
\* it after one import and a second import kept the flag.
C4_Witness ==
  /\ Imported
  /\ <<"B">> \in OfUrl(servers, call.url)
  /\ servers[<<"B">>].protocol = "vmess"
  /\ servers[<<"B">>].autoConnect

\* C5: a line that cannot be decoded (an unrecognised scheme, an empty line, a
\* vmess:// line whose payload is not the base64 of a JSON object) adds no
\* profile, and every decodable line of the bundle, before and after it, is
\* still decoded and persisted.
C5_UndecodableLinesSkipped ==
  Imported =>
    LET good == SelectSeq(SentLines, LAMBDA l : l.decodable /\ ~l.obfs)
    IN  /\ Len(Added) = Len(good)
        /\ \A i \in 1..Len(good) : Added[i].serverName = good[i].name

\* C6: an empty bundle text makes addSubscriptionServers emit one
\* serverConfigError and nothing else: no profile of the subscription is
\* removed, none is added, serversChanged is not emitted.
C6_FailedFetchTouchesNothing ==
  [][ (call'.op = "addSubscriptionServers" /\ call'.bundle = <<>>) =>
        /\ servers' = servers
        /\ effects' = << Effect("serverConfigError", FetchFailed) >> ]_vars

\* C6 witness: a fetch has failed while the store holds a profile of the
\* subscription.
C6_Witness ==
  /\ call.op = "addSubscriptionServers"
  /\ call.bundle = <<>>
  /\ OfUrl(servers, call.url) # {}
  /\ Len(effects) = 1

\* C7: a successful import emits serversChanged exactly once, after the last
\* line has been processed and its profile persisted, never between two
\* addServer calls.
C7_ServersChangedOnceAtEnd ==
  Imported =>
    /\ Len(Of(effects, "serversChanged")) = 1
    /\ effects[Len(effects)].name = "serversChanged"

\* C7 witness: an import has persisted two profiles.
C7_Witness == Imported /\ Len(Added) = 2

\* C8: in a bundle mixing links, every ss:// link with a plugin parameter of
\* the form key=value;key=value is flagged (its decoded record holds "obfs")
\* and is never handed to configurator.addServer, while every other ss:// or
\* vmess:// line is persisted with the import URL as its subscription.
C8_ObfuscatedExcluded ==
  Imported =>
    LET kept == SelectSeq(SentLines, LAMBDA l : l.scheme \in {"ss", "vmess"} /\ ~l.obfs)
    IN  /\ \A i \in 1..Len(SentLines) :
             SentLines[i].obfs =>
               Contains(getShadowsocksServerFromUrl(SentLines[i].text, call.url), "obfs")
        /\ Len(Added) = Len(kept)
        /\ \A i \in 1..Len(kept) :
             /\ Added[i].serverName = kept[i].name
             /\ Added[i].subscription = call.url
             /\ Added[i].protocol = IF kept[i].scheme = "ss" THEN "shadowsocks" ELSE "vmess"
             /\ Added[i].serverName \in OfUrl(servers, call.url)

\* C8 witness: a bundle of an obfuscated and a plain Shadowsocks link has been
\* imported, and one profile persisted.
C8_Witness ==
  /\ Imported
  /\ \E i, j \in 1..Len(SentLines) :
       /\ SentLines[i].obfs
       /\ SentLines[j].scheme = "ss" /\ ~SentLines[j].obfs
  /\ Len(Added) = 1

\* C18: the profile persisted for the imported link
\* ss://base64(AES:pw)@s.co:8388/#A has address s.co, port 8388 (the integer
\* of the link, not 0), method aes (the method in lower case) and password pw.
C18_SsLinkPersisted ==
  Imported =>
    \A i \in 1..Len(Added) :
      Added[i].protocol = "shadowsocks" =>
        LET server == Added[i].settings.servers[1]
        IN  /\ server.address = <<"s", ".", "c", "o">>
            /\ server.port = 8388
            /\ server.method = <<"a", "e", "s">>
            /\ server.password = <<"p", "w">>

-----------------------------------------------------------------------------
(* Profiles added and edited by the user                                   *)

\* Configurator::getConnectedServerNames: the names of the profiles the user
\* has connected
ConfiguratorGetConnectedServerNames(store) ==
  { n \in DOMAIN store : store[n].autoConnect }

\* addV2RayServer as it would be if the profile were saved whatever the
\* validator says
addV2RayServer_SaveAnyway(serverConfig, run) ==
  LET serverConfigErrors == getV2RayServerConfigErrors(serverConfig)
      pretty == getPrettyV2RayConfig(serverConfig, run)
  IN  /\ call' = [op |-> "addV2RayServer", config |-> serverConfig]
      /\ servers' = ConfiguratorAddServer(servers, pretty)
      /\ effects' = (IF serverConfigErrors # <<>>
                     THEN << Effect("serverConfigError", serverConfigErrors) >>
                     ELSE <<>>)
                    \o << Effect("configurator.addServer", pretty),
                          Effect("serversChanged", <<>>) >>
      /\ UNCHANGED <<appConfig, serverLatency, imported, remote, ret, pacServerRunning, coreStatusShown>>

addV2RayServer(serverConfig, run) ==
  LET serverConfigErrors == getV2RayServerConfigErrors(serverConfig)
      pretty == getPrettyV2RayConfig(serverConfig, run)
  IN  /\ call' = [op |-> "addV2RayServer", config |-> serverConfig]
      /\ IF serverConfigErrors # <<>>
         THEN /\ effects' = << Effect("serverConfigError", serverConfigErrors) >>
              /\ UNCHANGED servers
         ELSE /\ servers' = ConfiguratorAddServer(servers, pretty)
              /\ effects' = << Effect("configurator.addServer", pretty),
                               Effect("serversChanged", <<>>) >>
      /\ UNCHANGED <<appConfig, serverLatency, imported, remote, ret, pacServerRunning, coreStatusShown>>

addShadowsocksServer(serverConfig) ==
  LET serverConfigErrors == getShadowsocksServerConfigErrors(serverConfig)
      pretty == getPrettyShadowsocksConfig(serverConfig)
  IN  /\ call' = [op |-> "addShadowsocksServer", config |-> serverConfig]
      /\ IF serverConfigErrors # <<>>
         THEN /\ effects' = << Effect("serverConfigError", serverConfigErrors) >>
              /\ UNCHANGED servers
         ELSE /\ servers' = ConfiguratorAddServer(servers, pretty)
              /\ effects' = << Effect("configurator.addServer", pretty),
                               Effect("serversChanged", <<>>) >>
      /\ UNCHANGED <<appConfig, serverLatency, imported, remote, ret, pacServerRunning, coreStatusShown>>

\* RenamedLatency as it would be if the entry of the old name were kept
RenamedLatency_KeepOld(latency, serverName, newServerName) ==
  IF serverName \in DOMAIN latency /\ newServerName # serverName
  THEN (newServerName :> latency[serverName]) @@ latency
  ELSE latency

\* the latency table after a profile has been edited: the entry of the old
\* name moves to the new name
RenamedLatency(latency, serverName, newServerName) ==
  IF serverName \in DOMAIN latency /\ newServerName # serverName
  THEN (newServerName :> latency[serverName])
         @@ [n \in DOMAIN latency \ {serverName} |-> latency[n]]
  ELSE latency

editServer(serverName, protocol, config, run) ==
  LET serverConfigErrors == getServerConfigErrors(config, protocol)
      serverConfig  == getPrettyServerConfig(config, protocol, run)
      edited        == ConfiguratorEditServer(servers, serverName, serverConfig)
      newServerName == serverConfig.serverName
      connected     == newServerName \in ConfiguratorGetConnectedServerNames(edited.store)
      shown         == IF serverName \in DOMAIN serverLatency
                       THEN ("latency" :> serverLatency[serverName])
                              @@ ("connected" :> connected) @@ serverConfig
                       ELSE ("connected" :> connected) @@ serverConfig
  IN  /\ call' = [op |-> "editServer", serverName |-> serverName,
                  protocol |-> protocol, config |-> config]
      /\ IF serverConfigErrors # <<>>
         THEN /\ effects' = << Effect("serverConfigError", serverConfigErrors) >>
              /\ UNCHANGED <<servers, serverLatency>>
         ELSE IF edited.ok
         THEN /\ servers' = edited.store
              /\ serverLatency' = RenamedLatency(serverLatency, serverName, newServerName)
              /\ effects' = << Effect("configurator.editServer", <<serverName, serverConfig>>),
                               Effect("serverChanged", <<serverName, shown>>),
                               Effect("v2ray.restart", <<>>) >>
         ELSE /\ effects' = << Effect("configurator.editServer", <<serverName, serverConfig>>) >>
              /\ UNCHANGED <<servers, serverLatency>>
      /\ UNCHANGED <<appConfig, imported, remote, ret, pacServerRunning, coreStatusShown>>

-----------------------------------------------------------------------------
(* Spec: the user adds and edits profiles                                  *)

\* the JSON object the UI sends for a Shadowsocks profile
ShadowsocksForm(name, addr, port) ==
  [k \in {"serverName", "serverAddr", "serverPort", "encryption", "password"} |->
     CASE k = "serverName" -> JStr(name)
       [] k = "serverAddr" -> JStr(addr)
       [] k = "serverPort" -> JStr(port)
       [] k = "encryption" -> JStr(<<"A", "E", "S">>)
       [] k = "password"   -> JStr(<<"p", "w">>)]

\* the VMESS profiles the user submits: two that are in order (one with HTTP
\* camouflage), and some that are not
V2RayForms ==
  { V2RayForm(<<"A">>, AddrValid, <<"w", "s">>, ValidNumerics),
    [V2RayForm(<<"B">>, AddrValid, <<"t", "c", "p">>, ValidNumerics)
       EXCEPT !["tcpHeaderType"] = JStr(<<"h", "t", "t", "p">>)],
    V2RayForm(<<"A">>, AddrInvalid, <<"t", "c", "p">>, ValidNumerics),
    V2RayForm(<<"B">>, AddrValid, <<"k", "c", "p">>, ValidNumerics),
    V2RayForm(<<"A">>, AddrValid, <<"t", "c", "p">>,
              [ValidNumerics EXCEPT !["alterId"] = TextOf(<<"a", "b", "c">>, FALSE, 0)]),
    V2RayForm(<<"B">>, AddrValid, <<"w", "s">>,
              [ValidNumerics EXCEPT !["mux"] = Absent]),
    V2RayForm(<<>>, AddrValid, <<"t", "c", "p">>, ValidNumerics) }

\* the Shadowsocks profiles the user submits
ShadowsocksForms ==
  { ShadowsocksForm(<<"A">>, AddrValid, <<"8", "3", "8", "8">>),
    ShadowsocksForm(<<"B">>, AddrInvalid, <<"8", "3", "8", "8">>),
    ShadowsocksForm(<<"A">>, AddrValid, <<"6", "5", "5", "3", "6">>) }

\* the edits the user submits: a form under its protocol, a form under the
\* other protocol, a form under a protocol that is not known
EditRequests ==
  { [protocol |-> "vmess", config |-> f] : f \in V2RayForms }
    \cup { [protocol |-> "shadowsocks", config |-> f] : f \in ShadowsocksForms }
    \cup { [protocol |-> "shadowsocks",
            config |-> V2RayForm(<<"A">>, AddrValid, <<"w", "s">>, ValidNumerics)],
           [protocol |-> "trojan",
            config |-> ShadowsocksForm(<<"A">>, AddrValid, <<"8", "3", "8", "8">>)] }

EditedNames == { <<"A">>, <<"B">> }

Init ==
  /\ servers \in { NoServers,
                   (<<"A">> :> ManualProfile(<<"A">>)),
                   (<<"A">> :> ManualProfile(<<"A">>)) @@ (<<"B">> :> ManualProfile(<<"B">>)) }
  /\ serverLatency \in { NoLatency, (<<"A">> :> 42) @@ (<<"C">> :> 7) }
  /\ appConfig = NoAppConfig
  /\ call = [op |-> "none"]
  /\ effects = <<>>
  /\ imported = NoImport
  /\ remote = NoRemote
  /\ ret = NotReturned
  /\ pacServerRunning = FALSE
  /\ coreStatusShown = "none"

Next ==
  \/ \E f \in V2RayForms, run \in RandRuns : addV2RayServer(f, run)
  \/ \E f \in ShadowsocksForms : addShadowsocksServer(f)
  \/ \E n \in EditedNames, e \in EditRequests, run \in RandRuns :
       editServer(n, e.protocol, e.config, run)

Spec == Init /\ [][Next]_vars

\* what the validator says of the record a handler was given
SubmittedErrors(c) ==
  CASE c.op = "addV2RayServer"       -> getV2RayServerConfigErrors(c.config)
    [] c.op = "addShadowsocksServer" -> getShadowsocksServerConfigErrors(c.config)
    [] c.op = "editServer"           -> getServerConfigErrors(c.config, c.protocol)
    [] OTHER                         -> <<>>

\* C1: whenever the validator returns a non-empty error list for the record
\* submitted to addV2RayServer, addShadowsocksServer or editServer, the handler
\* emits serverConfigError and nothing else: no configurator.addServer or
\* editServer, no engine restart, no serversChanged or serverChanged, and the
\* store and the latency table are as before the call.
C1_RejectedProfileTouchesNothing ==
  [][ SubmittedErrors(call') # <<>> =>
        /\ servers' = servers
        /\ serverLatency' = serverLatency
        /\ effects' = << Effect("serverConfigError", SubmittedErrors(call')) >> ]_vars

\* C1 witness: an edit of a stored profile that has a latency entry has been
\* rejected.
C1_Witness ==
  /\ call.op = "editServer"
  /\ SubmittedErrors(call) # <<>>
  /\ call.serverName \in DOMAIN servers
  /\ call.serverName \in DOMAIN serverLatency
  /\ call.config.serverName.s # call.serverName
  /\ Len(effects) = 1

\* C14: a record submitted to addV2RayServer, addShadowsocksServer or
\* editServer for which the validator returns no error is written to the
\* store, and after the write the handler calls v2ray.restart.
C14_ValidatedProfileRestartsEngine ==
  (call.op \in {"addV2RayServer", "addShadowsocksServer", "editServer"}
     /\ SubmittedErrors(call) = <<>>) =>
    \E i \in 1..Len(effects), j \in 1..Len(effects) :
      /\ i < j
      /\ effects[i].name \in {"configurator.addServer", "configurator.editServer"}
      /\ effects[j].name = "v2ray.restart"

\* the name under which an edit stores the profile
NewNameOf(c) == getPrettyServerConfig(c.config, c.protocol, 1).serverName

\* C19: a successful editServer that renames a profile with a cached latency
\* moves the entry: the new name has the old name's value, the old name is
\* gone and every other entry is as before.  When configurator.editServer
\* returns false the latency table is unchanged, serverChanged is not emitted
\* and the engine is not restarted.
C19_RenameMovesLatency ==
  [][ (call'.op = "editServer" /\ SubmittedErrors(call') = <<>>) =>
        IF call'.serverName \in DOMAIN servers
        THEN (call'.serverName \in DOMAIN serverLatency
                /\ NewNameOf(call') # call'.serverName) =>
               /\ DOMAIN serverLatency'
                    = (DOMAIN serverLatency \ {call'.serverName}) \cup {NewNameOf(call')}
               /\ serverLatency'[NewNameOf(call')] = serverLatency[call'.serverName]
               /\ \A n \in DOMAIN serverLatency \ {call'.serverName, NewNameOf(call')} :
                    serverLatency'[n] = serverLatency[n]
        ELSE /\ serverLatency' = serverLatency
             /\ servers' = servers
             /\ Of(effects', "serverChanged") = <<>>
             /\ Of(effects', "v2ray.restart") = <<>> ]_vars

\* C19 witness: profile A, with latency 42, has been renamed to B: B has 42, A
\* has no entry, C has its latency still.
C19_Witness ==
  /\ call.op = "editServer"
  /\ SubmittedErrors(call) = <<>>
  /\ call.serverName = <<"A">>
  /\ NewNameOf(call) = <<"B">>
  /\ Of(effects, "serverChanged") # <<>>
  /\ DOMAIN serverLatency = { <<"B">>, <<"C">> }
  /\ serverLatency[<<"B">>] = 42
  /\ serverLatency[<<"C">>] = 7

-----------------------------------------------------------------------------
(* Application settings                                                    *)

\* the message that the two ports are the same; it names no field
SamePort == Message("samePort", "PAC Server Port", 0, 0)

\* the verdict on the DNS servers: the first entry that is not an IP address
\* ends the loop
DnsErrors(dnsServers) ==
  IF \E i \in 1..Len(dnsServers) : ~isIpAddrValid(Trimmed(dnsServers[i]))
  THEN << Message("invalid", "DNS Servers", 0, 0) >>
  ELSE <<>>

getAppConfigErrors(config) ==
  RemoveEmpty(
    << getStringConfigError(config, "language", "Language", {}),
       getStringConfigError(config, "serverProtocol", "Local Server Protocol", {}),
       getStringConfigError(config, "serverIp", "Listening IP Address", {"ip"}),
       getNumericConfigError(config, "serverPort", "Listening Port", 1, 65535),
       getNumericConfigError(config, "pacPort", "PAC Server Port", 1, 65535) >>
    \o (IF JToString(Value(config, "pacPort")) = JToString(Value(config, "serverPort"))
        THEN << SamePort >> ELSE <<>>)
    \o (IF ~Contains(config, "dns") \/ JToString(Value(config, "dns")) = <<>>
        THEN << Message("missing", "DNS Servers", 0, 0) >>
        ELSE DnsErrors(Split(JToString(Value(config, "dns")), ","))))

\* the record that is saved: the two ports are numbers in it
SavedAppConfig(config) ==
  ("serverPort" :> JNum(ToIntOf(JToString(Value(config, "serverPort")))))
    @@ ("pacPort" :> JNum(ToIntOf(JToString(Value(config, "pacPort")))))
    @@ config

\* setAppConfig as it would be if the record were applied before it is checked
setAppConfig_ApplyFirst(config) ==
  LET appConfigErrors == getAppConfigErrors(config)
      applied == << Effect("setAutoStart", JToBool(Value(config, "autoStart"))),
                    Effect("retranslate", JToString(Value(config, "language"))),
                    Effect("configurator.setAppConfig", SavedAppConfig(config)) >>
  IN  /\ call' = [op |-> "setAppConfig", config |-> config]
      /\ appConfig' = ConfiguratorSetAppConfig(appConfig, SavedAppConfig(config))
      /\ effects' = IF appConfigErrors # <<>>
                    THEN Append(applied, Effect("appConfigError", appConfigErrors))
                    ELSE applied \o << Effect("v2ray.restart", <<>>),
                                       Effect("appConfigChanged", <<>>) >>
      /\ UNCHANGED <<servers, serverLatency, imported, remote, ret, pacServerRunning, coreStatusShown>>

setAppConfig(config) ==
  LET appConfigErrors == getAppConfigErrors(config)
  IN  /\ call' = [op |-> "setAppConfig", config |-> config]
      /\ IF appConfigErrors # <<>>
         THEN /\ effects' = << Effect("appConfigError", appConfigErrors) >>
              /\ UNCHANGED appConfig
         ELSE /\ appConfig' = ConfiguratorSetAppConfig(appConfig, SavedAppConfig(config))
              /\ effects' = << Effect("setAutoStart", JToBool(Value(config, "autoStart"))),
                               Effect("retranslate", JToString(Value(config, "language"))),
                               Effect("configurator.setAppConfig", SavedAppConfig(config)),
                               Effect("v2ray.restart", <<>>),
                               Effect("appConfigChanged", <<>>) >>
      /\ UNCHANGED <<servers, serverLatency, imported, remote, ret, pacServerRunning, coreStatusShown>>

-----------------------------------------------------------------------------
(* SpecAppConfig: the user submits the application settings                *)

\* the ports the user submits, as pairs of listening port and PAC port
PortPairs ==
  { [serverPort |-> TextOf(<<"1", "0", "8", "0">>, TRUE, 1080),
     pacPort    |-> TextOf(<<"1", "0", "8", "7">>, TRUE, 1087)],
    [serverPort |-> TextOf(<<"1", "0", "8", "0">>, TRUE, 1080),
     pacPort    |-> TextOf(<<"0", "1", "0", "8", "0">>, TRUE, 1080)],
    [serverPort |-> TextOf(<<"0">>, TRUE, 0),
     pacPort    |-> TextOf(<<"0">>, TRUE, 0)],
    [serverPort |-> TextOf(<<"1", "0", "8", "0">>, TRUE, 1080),
     pacPort    |-> TextOf(<<"1", "0", "8", "0">>, TRUE, 1080)],
    [serverPort |-> TextOf(<<"0">>, TRUE, 0),
     pacPort    |-> TextOf(<<"1", "0", "8", "7">>, TRUE, 1087)],
    [serverPort |-> TextOf(<<"1", "0", "8", "0">>, TRUE, 1080),
     pacPort    |-> TextOf(<<"6", "5", "5", "3", "6">>, TRUE, 65536)],
    [serverPort |-> Absent,
     pacPort    |-> TextOf(<<"1", "0", "8", "7">>, TRUE, 1087)] }

LanguageTexts == { <<"e", "n">>, <<>> }

IpTexts == { <<"1", "2", "7", ".", "0", ".", "0", ".", "1">>, <<"a", ".", "c", "o">> }

\* the DNS servers the user submits: two addresses, an address and a name,
\* nothing
DnsTexts ==
  { <<"8", ".", "8", ".", "8", ".", "8", ",", " ", "1", ".", "1", ".", "1", ".", "1">>,
    <<"8", ".", "8", ".", "8", ".", "8", ",", "x">>,
    <<>> }

\* the JSON object the UI sends for the application settings
AppForm(language, serverIp, ports, dns, autoStart) ==
  LET fields ==
        [k \in {"autoStart", "language", "serverProtocol", "serverIp",
                "serverPort", "pacPort", "dns"} |->
           CASE k = "autoStart"      -> JBool(autoStart)
             [] k = "language"       -> JStr(language)
             [] k = "serverProtocol" -> JStr(<<"S", "O", "C", "K", "S">>)
             [] k = "serverIp"       -> JStr(serverIp)
             [] k = "serverPort"     -> JStr(ports.serverPort.text)
             [] k = "pacPort"        -> JStr(ports.pacPort.text)
             [] k = "dns"            -> JStr(dns)]
      absent == {k \in {"serverPort", "pacPort"} : ~ports[k].present}
  IN  [k \in DOMAIN fields \ absent |-> fields[k]]

\* the settings stored before the user has changed any
StoredBefore ==
  ("proxyMode" :> JStr(<<"p", "a", "c">>))
    @@ SavedAppConfig(AppForm(<<"z", "h">>, <<"0", ".", "0", ".", "0", ".", "0">>,
                              [serverPort |-> TextOf(<<"1">>, TRUE, 1),
                               pacPort    |-> TextOf(<<"2">>, TRUE, 2)],
                              <<"9", ".", "9", ".", "9", ".", "9">>, FALSE))

InitAppConfig ==
  /\ appConfig \in { NoAppConfig, StoredBefore }
  /\ servers = NoServers
  /\ serverLatency = NoLatency
  /\ call = [op |-> "none"]
  /\ effects = <<>>
  /\ imported = NoImport
  /\ remote = NoRemote
  /\ ret = NotReturned
  /\ pacServerRunning = FALSE
  /\ coreStatusShown = "none"

\* the records the user submits: every language and port pair with an address
\* and DNS servers that are in order, and every address and DNS text with
\* every port pair
AppForms ==
  { AppForm(language, <<"1", "2", "7", ".", "0", ".", "0", ".", "1">>, ports,
            <<"8", ".", "8", ".", "8", ".", "8", ",", " ", "1", ".", "1", ".", "1", ".", "1">>,
            autoStart) :
      language \in LanguageTexts, ports \in PortPairs, autoStart \in BOOLEAN }
    \cup { AppForm(<<"e", "n">>, serverIp, ports, dns, FALSE) :
              serverIp \in IpTexts, ports \in PortPairs, dns \in DnsTexts }

NextAppConfig == \E config \in AppForms : setAppConfig(config)

SpecAppConfig == InitAppConfig /\ [][NextAppConfig]_vars

\* the names of the effects of a handler, in order
Names(effs) == [i \in 1..Len(effs) |-> effs[i].name]

\* what a reader takes a submitted port to be
PortDenoted(config, key) ==
  (CHOOSE p \in PortPairs : p[key].present /\ JStr(p[key].text) = config[key])[key].value

\* C2: setAppConfig is all-or-nothing.  When getAppConfigErrors returns an
\* error for the submitted record, the stored settings do not change and the
\* only effect is appConfigError: autostart and language are not touched, the
\* engine is not restarted, appConfigChanged is not emitted.  When it returns
\* none, every field of the record is stored (the two ports as numbers), then
\* the engine restart is requested, then appConfigChanged is emitted.
C2_SetAppConfigAllOrNothing ==
  [][ call'.op = "setAppConfig" =>
        IF getAppConfigErrors(call'.config) # <<>>
        THEN /\ appConfig' = appConfig
             /\ effects' = << Effect("appConfigError", getAppConfigErrors(call'.config)) >>
        ELSE /\ \A k \in DOMAIN call'.config :
                  appConfig'[k] = IF k \in {"serverPort", "pacPort"}
                                  THEN JNum(PortDenoted(call'.config, k))
                                  ELSE call'.config[k]
             /\ \A k \in DOMAIN appConfig \ DOMAIN call'.config :
                  k \in DOMAIN appConfig' /\ appConfig'[k] = appConfig[k]
             /\ SelectSeq(Names(effects'),
                          LAMBDA n : n \in {"configurator.setAppConfig", "v2ray.restart",
                                            "appConfigChanged", "appConfigError"})
                  = << "configurator.setAppConfig", "v2ray.restart", "appConfigChanged" >>
             /\ Of(effects', "configurator.setAppConfig")[1].arg
                  = [k \in DOMAIN call'.config |-> appConfig'[k]] ]_vars

\* C2 witness: settings the user saved earlier are stored, and a later record
\* with other values has been rejected.
C2_Witness ==
  /\ call.op = "setAppConfig"
  /\ getAppConfigErrors(call.config) # <<>>
  /\ effects = << Effect("appConfigError", getAppConfigErrors(call.config)) >>
  /\ "language" \in DOMAIN appConfig
  /\ appConfig["language"] = JStr(<<"e", "n">>)
  /\ appConfig["autoStart"] # call.config["autoStart"]
  /\ appConfig["serverIp"] # call.config["serverIp"]

\* the messages of a result that say the two ports are the same
SamePortMessages(errors) == SelectSeq(errors, LAMBDA e : e = SamePort)

\* C12: for every submitted record whose pacPort and serverPort are texts of
\* the same integer (the integers setAppConfig would store are equal),
\* getAppConfigErrors holds exactly one "'PAC Server Port' can not be the same
\* as 'Listening Port'." message, whether or not the ports are in range; and
\* the stored settings never hold equal serverPort and pacPort.
C12_EqualPortsRejected ==
  /\ call.op = "setAppConfig" =>
        LET serverPort == StrToInt(JToString(Value(call.config, "serverPort")))
            pacPort    == StrToInt(JToString(Value(call.config, "pacPort")))
        IN  (serverPort.ok /\ pacPort.ok /\ serverPort.value = pacPort.value) =>
              Len(SamePortMessages(getAppConfigErrors(call.config))) = 1
  /\ (Contains(appConfig, "serverPort") /\ Contains(appConfig, "pacPort")) =>
        appConfig["serverPort"] # appConfig["pacPort"]

-----------------------------------------------------------------------------
(* SpecLatency: the worker delivers probe results, the UI lists profiles   *)

\* the profiles as serversReady lists them: each with its connected flag, and
\* with its cached latency when the table holds its name
ListedServers(store, latency) ==
  [n \in DOMAIN store |->
     IF n \in DOMAIN latency
     THEN ("latency" :> latency[n])
            @@ ("connected" :> (n \in ConfiguratorGetConnectedServerNames(store)))
            @@ store[n]
     ELSE ("connected" :> (n \in ConfiguratorGetConnectedServerNames(store)))
            @@ store[n]]

getServers ==
  /\ call' = [op |-> "getServers"]
  /\ effects' = << Effect("serversReady", ListedServers(servers, serverLatency)) >>
  /\ UNCHANGED <<servers, appConfig, serverLatency, imported, remote, ret, pacServerRunning, coreStatusShown>>

\* returnServerLatency as it would be if a delivery replaced the table
returnServerLatency_ReplaceTable(latency) ==
  /\ call' = [op |-> "returnServerLatency", latency |-> latency]
  /\ serverLatency' = latency
  /\ effects' = << Effect("serverLatencyReady", latency) >>
  /\ UNCHANGED <<servers, appConfig, imported, remote, ret, pacServerRunning, coreStatusShown>>

returnServerLatency(latency) ==
  /\ call' = [op |-> "returnServerLatency", latency |-> latency]
  /\ serverLatency' = [n \in DOMAIN serverLatency \cup DOMAIN latency |->
                         IF n \in DOMAIN latency THEN latency[n] ELSE serverLatency[n]]
  /\ effects' = << Effect("serverLatencyReady", latency) >>
  /\ UNCHANGED <<servers, appConfig, imported, remote, ret, pacServerRunning, coreStatusShown>>

\* the names the worker probes and the latencies it measures (-1: no answer)
ProbedNames == { <<"A">>, <<"B">>, <<"C">> }

LatencyValues == { -1, 42, 300 }

\* the results the worker delivers: any of the names, each with a latency
Deliveries == UNION { [names -> LatencyValues] : names \in SUBSET ProbedNames }

InitLatency ==
  /\ servers \in { NoServers, (<<"A">> :> ManualProfile(<<"A">>)) }
  /\ serverLatency = NoLatency
  /\ appConfig = NoAppConfig
  /\ call = [op |-> "none"]
  /\ effects = <<>>
  /\ imported = NoImport
  /\ remote = NoRemote
  /\ ret = NotReturned
  /\ pacServerRunning = FALSE
  /\ coreStatusShown = "none"

NextLatency ==
  \/ \E latency \in Deliveries : returnServerLatency(latency)
  \/ getServers

SpecLatency == InitLatency /\ [][NextLatency]_vars

\* C13: a delivery of probe results sets the table's entry of every name it
\* holds to the delivered value, leaves every other entry as it was and
\* removes none (an empty delivery changes nothing); so after any sequence of
\* deliveries each name has the value of the last delivery that held it.
C13_LatencyUpdatedPerKey ==
  [][ call'.op = "returnServerLatency" =>
        /\ DOMAIN serverLatency' = DOMAIN serverLatency \cup DOMAIN call'.latency
        /\ \A n \in DOMAIN call'.latency : serverLatency'[n] = call'.latency[n]
        /\ \A n \in DOMAIN serverLatency \ DOMAIN call'.latency :
             serverLatency'[n] = serverLatency[n] ]_vars

\* C13 witness: after a delivery for A alone, B still has the latency of an
\* earlier delivery, A has the new one, and the list shows both.
C13_Witness ==
  /\ call.op = "returnServerLatency"
  /\ DOMAIN call.latency = { <<"A">> }
  /\ call.latency[<<"A">>] = 42
  /\ DOMAIN serverLatency = { <<"A">>, <<"B">> }
  /\ serverLatency[<<"A">>] = 42
  /\ serverLatency[<<"B">>] = 300

-----------------------------------------------------------------------------
(* The engine switch and the system proxy                                  *)

\* the status as coreStatusShown keeps it
StatusText(running) == IF running THEN "running" ELSE "stopped"

\* getV2RayCoreStatus: the UI is told what V2RayCore::isRunning answers
getV2RayCoreStatus(isRunning) ==
  /\ call' = [op |-> "getV2RayCoreStatus", isRunning |-> isRunning]
  /\ effects' = << Effect("v2RayCoreStatusReady", isRunning) >>
  /\ coreStatusShown' = StatusText(isRunning)
  /\ UNCHANGED <<servers, appConfig, serverLatency, imported, remote, ret, pacServerRunning>>

\* setV2RayCoreRunning as it would be if the status were announced whatever
\* the engine answers
setV2RayCoreRunning_EmitAlways(expectedRunning, isSuccessful) ==
  /\ call' = [op |-> "setV2RayCoreRunning", expectedRunning |-> expectedRunning,
              isSuccessful |-> isSuccessful]
  /\ effects' = << Effect(IF expectedRunning THEN "v2ray.start" ELSE "v2ray.stop", isSuccessful),
                   Effect("v2RayCoreStatusReady", expectedRunning) >>
  /\ coreStatusShown' = StatusText(expectedRunning)
  /\ UNCHANGED <<servers, appConfig, serverLatency, imported, remote, ret, pacServerRunning>>

\* isSuccessful is what V2RayCore::start or V2RayCore::stop answers
setV2RayCoreRunning(expectedRunning, isSuccessful) ==
  /\ call' = [op |-> "setV2RayCoreRunning", expectedRunning |-> expectedRunning,
              isSuccessful |-> isSuccessful]
  /\ IF isSuccessful
     THEN /\ effects' = << Effect(IF expectedRunning THEN "v2ray.start" ELSE "v2ray.stop",
                                  isSuccessful),
                           Effect("v2RayCoreStatusReady", expectedRunning) >>
          /\ coreStatusShown' = StatusText(expectedRunning)
     ELSE /\ effects' = << Effect(IF expectedRunning THEN "v2ray.start" ELSE "v2ray.stop",
                                  isSuccessful) >>
          /\ UNCHANGED coreStatusShown
  /\ UNCHANGED <<servers, appConfig, serverLatency, imported, remote, ret, pacServerRunning>>

\* QString::number of an int
RECURSIVE NumberText(_)
NumberText(n) ==
  IF n < 0 THEN <<"-">> \o NumberText(-n)
  ELSE IF n < 10 THEN << Digits[n + 1] >>
  ELSE NumberText(n \div 10) \o << Digits[(n % 10) + 1] >>

ProxyHost == <<"1", "2", "7", ".", "0", ".", "0", ".", "1">>

ModeGlobal == <<"g", "l", "o", "b", "a", "l">>

ModePac == <<"p", "a", "c">>

\* the NetworkProxy that setSystemProxyMode hands to NetworkProxyHelper; the
\* type, port and url of a NetworkProxy as constructed are "default", 0, ""
ProxyFor(proxyMode, config) ==
  IF proxyMode = ModeGlobal
  THEN [type |-> IF JToString(Value(config, "serverProtocol")) = <<"S", "O", "C", "K", "S">>
                 THEN "SOCKS_PROXY" ELSE "HTTP_PROXY",
        host |-> ProxyHost,
        port |-> JToInt(Value(config, "serverPort")),
        url  |-> <<>>]
  ELSE IF proxyMode = ModePac
  THEN [type |-> "PAC_PROXY",
        host |-> ProxyHost,
        port |-> JToInt(Value(config, "pacPort")),
        url  |-> <<"h", "t", "t", "p", ":", "/", "/">> \o ProxyHost \o <<":">>
                   \o NumberText(JToInt(Value(config, "pacPort")))
                   \o <<"/", "p", "r", "o", "x", "y", ".", "p", "a", "c">>]
  ELSE [type |-> "default", host |-> ProxyHost, port |-> 0, url |-> <<>>]

\* the mode a call applies: its argument, or the stored mode when that is empty
ModeApplied(proxyMode, config) ==
  IF proxyMode = <<>> THEN JToString(Value(config, "proxyMode")) ELSE proxyMode

\* setSystemProxyMode as it would be if a running PAC server were left running
setSystemProxyMode_KeepPacServer(proxyMode) ==
  LET mode == ModeApplied(proxyMode, appConfig)
  IN  /\ call' = [op |-> "setSystemProxyMode", proxyMode |-> proxyMode]
      /\ effects' = << Effect("resetSystemProxy", <<>>) >>
                    \o (IF mode = ModePac
                        THEN << Effect("pacServer.start",
                                       << JToString(Value(appConfig, "serverIp")),
                                          JToInt(Value(appConfig, "pacPort")) >>) >>
                        ELSE <<>>)
                    \o << Effect("setSystemProxy", ProxyFor(mode, appConfig)),
                          Effect("proxyModeChanged", mode),
                          Effect("configurator.setAppConfig", ("proxyMode" :> JStr(mode))) >>
      /\ pacServerRunning' = (pacServerRunning \/ mode = ModePac)
      /\ appConfig' = ConfiguratorSetAppConfig(appConfig, ("proxyMode" :> JStr(mode)))
      /\ UNCHANGED <<servers, serverLatency, imported, remote, ret, coreStatusShown>>

setSystemProxyMode(proxyMode) ==
  LET mode == ModeApplied(proxyMode, appConfig)
  IN  /\ call' = [op |-> "setSystemProxyMode", proxyMode |-> proxyMode]
      /\ effects' = << Effect("resetSystemProxy", <<>>) >>
                    \o (IF pacServerRunning THEN << Effect("pacServer.stop", <<>>) >> ELSE <<>>)
                    \o (IF mode = ModePac
                        THEN << Effect("pacServer.start",
                                       << JToString(Value(appConfig, "serverIp")),
                                          JToInt(Value(appConfig, "pacPort")) >>) >>
                        ELSE <<>>)
                    \o << Effect("setSystemProxy", ProxyFor(mode, appConfig)),
                          Effect("proxyModeChanged", mode),
                          Effect("configurator.setAppConfig", ("proxyMode" :> JStr(mode))) >>
      /\ pacServerRunning' = (mode = ModePac)
      /\ appConfig' = ConfiguratorSetAppConfig(appConfig, ("proxyMode" :> JStr(mode)))
      /\ UNCHANGED <<servers, serverLatency, imported, remote, ret, coreStatusShown>>

-----------------------------------------------------------------------------
(* SpecControl: the user switches the engine and the system proxy mode     *)

\* the modes the UI asks for; the empty one means "as stored"
ProxyModes == { <<>>, <<"d", "i", "r", "e", "c", "t">>, ModeGlobal, ModePac }

InitControl ==
  /\ appConfig \in { NoAppConfig, StoredBefore }
  /\ servers = NoServers
  /\ serverLatency = NoLatency
  /\ call = [op |-> "none"]
  /\ effects = <<>>
  /\ imported = NoImport
  /\ remote = NoRemote
  /\ ret = NotReturned
  /\ pacServerRunning = FALSE
  /\ coreStatusShown = "none"

NextControl ==
  \/ \E expectedRunning \in BOOLEAN, isSuccessful \in BOOLEAN :
       setV2RayCoreRunning(expectedRunning, isSuccessful)
  \/ \E isRunning \in BOOLEAN : getV2RayCoreStatus(isRunning)
  \/ \E proxyMode \in ProxyModes : setSystemProxyMode(proxyMode)

SpecControl == InitControl /\ [][NextControl]_vars

\* C15: setV2RayCoreRunning(expected) emits v2RayCoreStatusReady(expected) if
\* and only if the start (expected true) or stop (expected false) it calls
\* reports success; when the call fails no status is emitted and the status
\* the UI was told last stays as it was.
C15_StatusToldOnlyOnSuccess ==
  [][ call'.op = "setV2RayCoreRunning" =>
        /\ Names(effects')[1] = (IF call'.expectedRunning THEN "v2ray.start" ELSE "v2ray.stop")
        /\ Of(effects', "v2RayCoreStatusReady")
             = (IF call'.isSuccessful
                THEN << Effect("v2RayCoreStatusReady", call'.expectedRunning) >>
                ELSE <<>>)
        /\ coreStatusShown' = (IF call'.isSuccessful
                               THEN StatusText(call'.expectedRunning)
                               ELSE coreStatusShown) ]_vars

\* C15 witness: the UI was told the engine is stopped, and a start that failed
\* has left it so.
C15_Witness ==
  /\ call.op = "setV2RayCoreRunning"
  /\ call.expectedRunning
  /\ ~call.isSuccessful
  /\ coreStatusShown = "stopped"
  /\ Of(effects, "v2RayCoreStatusReady") = <<>>

\* the place of the first effect of a name among a handler's effects, 0 if none
PlaceOf(effs, name) ==
  IF \E i \in 1..Len(effs) : effs[i].name = name
  THEN CHOOSE i \in 1..Len(effs) :
         effs[i].name = name /\ \A j \in 1..(i - 1) : effs[j].name # name
  ELSE 0

\* C20: after every setSystemProxyMode call the PAC server runs if and only
\* if the mode of the call (the stored proxyMode when the argument is empty)
\* is "pac"; the call resets the system proxy first and stops a running PAC
\* server before it starts one or sets the system proxy; and the mode it
\* applies is the one it stores as proxyMode and announces by
\* proxyModeChanged.
C20_PacServerFollowsMode ==
  [][ call'.op = "setSystemProxyMode" =>
        LET mode == ModeApplied(call'.proxyMode, appConfig)
        IN  /\ pacServerRunning' = (mode = ModePac)
            /\ Names(effects')[1] = "resetSystemProxy"
            /\ pacServerRunning =>
                 /\ PlaceOf(effects', "pacServer.stop") = 2
                 /\ PlaceOf(effects', "pacServer.stop") < PlaceOf(effects', "setSystemProxy")
                 /\ (mode = ModePac =>
                       PlaceOf(effects', "pacServer.stop") < PlaceOf(effects', "pacServer.start"))
            /\ (PlaceOf(effects', "pacServer.start") # 0) = (mode = ModePac)
            /\ Len(Of(effects', "setSystemProxy")) = 1
            /\ Of(effects', "setSystemProxy")[1].arg.type
                 \in (IF mode = ModePac THEN {"PAC_PROXY"}
                      ELSE IF mode = ModeGlobal THEN {"SOCKS_PROXY", "HTTP_PROXY"}
                      ELSE {"default"})
            /\ Of(effects', "proxyModeChanged") = << Effect("proxyModeChanged", mode) >>
            /\ appConfig'["proxyMode"] = JStr(mode) ]_vars

\* C20 witness: with the PAC server running, a call with the empty mode has
\* applied the stored mode "pac" again: the server was stopped and started.
C20_Witness ==
  /\ call.op = "setSystemProxyMode"
  /\ call.proxyMode = <<>>
  /\ pacServerRunning
  /\ PlaceOf(effects, "pacServer.stop") = 2
  /\ PlaceOf(effects, "pacServer.start") = 3
  /\ appConfig["proxyMode"] = JStr(ModePac)

-----------------------------------------------------------------------------
(* SpecScan: the user scans the screens for QR codes                       *)

\* decoded[i] is what QrCodeHelper::decode reads on the i-th screen, empty
\* when it shows no QR code.  The links found are joined and handed to
\* addSubscriptionServers, whose second argument is left to its default, the
\* empty URL.
scanQrCodeScreen(decoded, run) ==
  LET found == SelectSeq(decoded, LAMBDA serverUrl : serverUrl # <<>>)
      subsriptionServers == Join(found, "\n")
      rest  == ConfiguratorRemoveSubscriptionServers(servers, <<>>)
      start == [store   |-> rest.store,
                effects |-> << Effect("configurator.removeSubscriptionServers", <<>>) >>]
      done  == ImportLines(Split(subsriptionServers, "\n"), 1, <<>>, rest.removed, start, run)
  IN  /\ call' = [op |-> "scanQrCodeScreen", decoded |-> decoded]
      /\ IF subsriptionServers = <<>>
         THEN /\ effects' = << Effect("serverConfigError", FetchFailed) >>
              /\ UNCHANGED <<servers, imported>>
         ELSE /\ servers' = done.store
              /\ effects' = Append(done.effects, Effect("serversChanged", <<>>))
              /\ imported' = [done |-> TRUE, url |-> <<>>, bundle |-> subsriptionServers]
      /\ UNCHANGED <<appConfig, serverLatency, remote, ret, pacServerRunning, coreStatusShown>>

\* what a screen may show: no QR code, or the QR code of a share link
ScreenTexts ==
  { <<>>,
    VmessLink(PlainPayload),
    VmessLink(CamouflagePayload),
    SsLink(CHOOSE u \in SsUserInfos : u.blob = "b64{AES:pw}",
           <<"s", ".", "c", "o">>, <<"8", "3", "8", "8">>, <<>>, <<"A">>) }

\* the most screens that are attached
MaxScreens == 2

\* what the attached screens show
ScreenReads == UNION { [1..n -> ScreenTexts] : n \in 0..MaxScreens }

InitScan ==
  /\ servers \in InitialStores
  /\ appConfig = NoAppConfig
  /\ serverLatency = NoLatency
  /\ call = [op |-> "none"]
  /\ effects = <<>>
  /\ imported = NoImport
  /\ remote = NoRemote
  /\ ret = NotReturned
  /\ pacServerRunning = FALSE
  /\ coreStatusShown = "none"

NextScan ==
  \/ \E decoded \in ScreenReads, run \in RandRuns : scanQrCodeScreen(decoded, run)
  \/ \E n \in ToggledNames, c \in BOOLEAN : setServerConnection(n, c)

SpecScan == InitScan /\ [][NextScan]_vars

\* C17: scanQrCodeScreen only adds profiles: every name that was in the store
\* before the scan is in it afterwards, a profile added by hand (its
\* subscription is empty) is there unchanged unless a scanned profile has its
\* name, and a scan that finds no QR code leaves the store as it was.
C17_ScanOnlyAdds ==
  [][ call'.op = "scanQrCodeScreen" =>
        /\ \A n \in DOMAIN servers : n \in DOMAIN servers'
        /\ (\A i \in 1..Len(call'.decoded) : call'.decoded[i] = <<>>) => servers' = servers
    ]_vars

=============================================================================
